---- MODULE Spec2Model ----
(***************************************************************************)
(* Workflow agent of PocketFlow: the step registry, the step successor     *)
(* resolver, the step interpreter with its five action handlers, and the   *)
(* node flow (load -> match -> execute, execute looping on "continue").    *)
(*                                                                         *)
(* A workflow step is a record                                             *)
(*   [id, action, field, tool_name, then, else, hasSteps, steps]           *)
(* where id = None stands for a step without an "id" key, action = ""      *)
(* for a step without an "action" key, hasSteps for the presence of the    *)
(* "steps" key.  A branch (the value under "then"/"else") is a record      *)
(*   [shape, items]                                                        *)
(* with shape "absent" (key missing or null), "list" (a list of steps),    *)
(* "single" (one step mapping) or "wrapped" (a mapping {steps: [...]}).    *)
(***************************************************************************)
EXTENDS Integers, Sequences, FiniteSets, TLC

VARIABLES
    wf,                   \* the step tree of the workflow under execution
    pc,                   \* position of the flow run
    selected_workflow,    \* shared["selected_workflow"]: a workflow name or None
    current_step,         \* shared["current_step"]: the persisted step id or None
    conversation_history, \* shared["conversation_history"]
    extracted_fields,     \* shared["extracted_fields"]
    runs,                 \* flow runs started on this shared store
    last,                 \* record of the latest node invocation
    call                  \* record of the latest registry / resolver call

vars == <<wf, pc, selected_workflow, current_step, conversation_history,
          extracted_fields, runs, last, call>>

None == "None"

----------------------------------------------------------------------------
(* Step trees *)

AbsentBranch == [shape |-> "absent", items |-> <<>>]
ListBranch(l) == [shape |-> "list", items |-> l]
SingleBranch(s) == [shape |-> "single", items |-> <<s>>]
WrappedBranch(l) == [shape |-> "wrapped", items |-> l]

\* `if then_branch:` -- a missing key, None and [] are falsy, a mapping with
\* at least one key is truthy
BranchTruthy(b) ==
    \/ b.shape = "single"
    \/ b.shape = "wrapped"
    \/ (b.shape = "list" /\ Len(b.items) > 0)

\* `isinstance(branch, dict) and "steps" in branch`
BranchHasSteps(b) ==
    \/ b.shape = "wrapped"
    \/ (b.shape = "single" /\ b.items[1].hasSteps)

\* `branch["steps"]`
BranchSteps(b) == IF b.shape = "wrapped" THEN b.items ELSE b.items[1].steps

IsConditional(step) ==
    step.action = "conditional" \/ step.action = "fetch_with_condition"

----------------------------------------------------------------------------
(* build_step_registry: the steps it stores, in the order it stores them *)

RECURSIVE ProcessStep(_)
RECURSIVE ProcessList(_, _)

ProcessBranch(b) ==
    IF ~BranchTruthy(b) THEN <<>>
    ELSE IF BranchHasSteps(b) THEN ProcessList(BranchSteps(b), 1)
    ELSE IF b.shape = "list" THEN ProcessList(b.items, 1)
    ELSE IF b.items[1].id # None THEN ProcessStep(b.items[1])
    ELSE <<>>

ProcessStep(step) ==
    IF step.id = None THEN <<>>
    ELSE <<step>>
         \o (IF IsConditional(step)
             THEN ProcessBranch(step.then) \o ProcessBranch(step.else)
             ELSE <<>>)
         \o (IF step.hasSteps THEN ProcessList(step.steps, 1) ELSE <<>>)

ProcessList(l, i) ==
    IF i > Len(l) THEN <<>> ELSE ProcessStep(l[i]) \o ProcessList(l, i + 1)

\* the registry as the sequence of its assignments registry[id] = step
RegistryWrites(steps) == ProcessList(steps, 1)

RegistryKeys(steps) ==
    {RegistryWrites(steps)[i].id : i \in 1..Len(RegistryWrites(steps))}

\* a slip: the first assignment to a key is kept
RegistryGet_first(steps, id) ==
    LET w == RegistryWrites(steps)
        hits == {i \in 1..Len(w) : w[i].id = id}
    IN IF hits = {} THEN None
       ELSE w[CHOOSE i \in hits : \A j \in hits : i <= j]

\* registry.get(id): the last assignment wins; None when the key is missing
RegistryGet(steps, id) ==
    LET w == RegistryWrites(steps)
        hits == {i \in 1..Len(w) : w[i].id = id}
    IN IF hits = {} THEN None
       ELSE w[CHOOSE i \in hits : \A j \in hits : j <= i]

build_step_registry(steps) ==
    [id \in RegistryKeys(steps) |-> RegistryGet(steps, id)]

----------------------------------------------------------------------------
(* get_next_step_id *)

NoReturn == [ret |-> FALSE, val |-> None]
Return(v) == [ret |-> TRUE, val |-> v]

\* a slip: an empty {steps: []} wrapper is taken for a chosen branch
FirstOfBranch_emptyWrapper(b) ==
    IF ~BranchTruthy(b) THEN NoReturn
    ELSE IF BranchHasSteps(b)
         THEN IF Len(BranchSteps(b)) > 0
              THEN Return(BranchSteps(b)[1].id) ELSE Return(None)
    ELSE IF b.shape = "list" THEN Return(b.items[1].id)
    ELSE IF b.items[1].id # None THEN Return(b.items[1].id)
    ELSE NoReturn

\* the first step of a chosen branch (lines 79-90, 93-104, 174-185, 188-199)
FirstOfBranch(b) ==
    IF ~BranchTruthy(b) THEN NoReturn
    ELSE IF BranchHasSteps(b)
         THEN IF Len(BranchSteps(b)) > 0
              THEN Return(BranchSteps(b)[1].id) ELSE NoReturn
    ELSE IF b.shape = "list" THEN Return(b.items[1].id)
    ELSE IF b.items[1].id # None THEN Return(b.items[1].id)
    ELSE NoReturn

\* index of the first top-level step with this id, 0 when there is none
TopIndexOf(top, id) ==
    LET hits == {i \in 1..Len(top) : top[i].id = id}
    IN IF hits = {} THEN 0 ELSE CHOOSE i \in hits : \A j \in hits : i <= j

\* a slip: the branch exit forgets the parent conditional's index
AfterConditional_lost(top, cidx) == None

\* the step after top-level index cidx (0 = no parent conditional known)
AfterConditional(top, cidx) ==
    IF cidx # 0 /\ cidx + 1 <= Len(top) THEN top[cidx + 1].id ELSE None

RECURSIVE FindStepAndGetNext(_, _, _, _, _, _)

\* one branch of a conditional that is not the current step (lines 126-159)
SearchBranch(step_id, b, top, cidx, cr) ==
    IF ~BranchTruthy(b) THEN NoReturn
    ELSE IF b.shape = "list"
         THEN LET r == FindStepAndGetNext(step_id, b.items, 1, top, cidx, cr)
              IN IF r # None THEN Return(r) ELSE NoReturn
    ELSE IF BranchHasSteps(b)
         THEN LET r == FindStepAndGetNext(step_id, BranchSteps(b), 1, top, cidx, cr)
              IN IF r # None THEN Return(r) ELSE NoReturn
    ELSE IF b.items[1].id = step_id
         THEN Return(AfterConditional(top, cidx))
    ELSE NoReturn

\* _find_step_and_get_next, scanning step_list from index idx
FindStepAndGetNext(step_id, step_list, idx, top, conditional_step_idx, cr) ==
    IF idx > Len(step_list) THEN None
    ELSE
      LET step == step_list[idx] IN
      IF step.id = step_id
      THEN LET entry == IF cr # "none" /\ IsConditional(step)
                        THEN (IF cr = "true" THEN FirstOfBranch(step.then)
                                             ELSE FirstOfBranch(step.else))
                        ELSE NoReturn
           IN IF entry.ret THEN entry.val
              ELSE IF idx + 1 <= Len(step_list) THEN step_list[idx + 1].id
              ELSE AfterConditional(top, conditional_step_idx)
      ELSE
        LET cidx == TopIndexOf(top, step.id)
            t == IF IsConditional(step)
                 THEN SearchBranch(step_id, step.then, top, cidx, cr)
                 ELSE NoReturn
            e == IF IsConditional(step) /\ ~t.ret
                 THEN SearchBranch(step_id, step.else, top, cidx, cr)
                 ELSE NoReturn
            n == IF ~t.ret /\ ~e.ret /\ step.hasSteps
                 THEN FindStepAndGetNext(step_id, step.steps, 1, top,
                                         conditional_step_idx, cr)
                 ELSE None
        IN IF t.ret THEN t.val
           ELSE IF e.ret THEN e.val
           ELSE IF n # None THEN n
           ELSE FindStepAndGetNext(step_id, step_list, idx + 1, top,
                                   conditional_step_idx, cr)

\* a slip: the resolver answers with the step it was asked about
get_next_step_id_same(current_step_id, steps, cr) == current_step_id

\* cr is "true", "false" or "none" (condition_result = None)
get_next_step_id(current_step_id, steps, cr) ==
    LET hits == {i \in 1..Len(steps) :
                    steps[i].id = current_step_id /\ IsConditional(steps[i])}
    IN IF hits # {}
       THEN LET idx == CHOOSE i \in hits : \A j \in hits : i <= j
                entry == IF cr = "true" THEN FirstOfBranch(steps[idx].then)
                                        ELSE FirstOfBranch(steps[idx].else)
            IN IF entry.ret THEN entry.val
               ELSE IF idx + 1 <= Len(steps) THEN steps[idx + 1].id
               ELSE None
       ELSE FindStepAndGetNext(current_step_id, steps, 1, steps, 0, cr)

get_first_step_id(steps) == IF Len(steps) = 0 THEN None ELSE steps[1].id

----------------------------------------------------------------------------
(* The step trees the model is run on *)

MaxBranchLen == 2
MaxTop == 2

Step(id, action, field, tool_name, then, else, hasSteps, steps) ==
    [id |-> id, action |-> action, field |-> field, tool_name |-> tool_name,
     then |-> then, else |-> else, hasSteps |-> hasSteps, steps |-> steps]

Fresh == "?"   \* an id that the labelling below replaces by a unique one

Leaf(id, action) ==
    Step(id, action, "", "", AbsentBranch, AbsentBranch, FALSE, <<>>)
Cond(id, then, else) ==
    Step(id, "conditional", "", "", then, else, FALSE, <<>>)
Container(id, steps) ==
    Step(id, "", "", "", AbsentBranch, AbsentBranch, TRUE, steps)

NullStep == Leaf(None, "")

RECURSIVE SeqsUpTo(_, _)
SeqsUpTo(S, n) ==
    IF n = 0 THEN {<<>>}
    ELSE LET shorter == SeqsUpTo(S, n - 1)
         IN shorter \cup {Append(l, s) : l \in {x \in shorter : Len(x) = n - 1}, s \in S}

\* every shape a then/else value can take over the given lists and steps
Branches(lists, singles) ==
    {AbsentBranch}
      \cup {ListBranch(l) : l \in lists}
      \cup {SingleBranch(s) : s \in singles}
      \cup {WrappedBranch(l) : l \in lists}

Ids == <<"s1", "s2", "s3", "s4", "s5", "s6", "s7", "s8", "s9", "s10",
         "s11", "s12", "s13", "s14", "s15", "s16", "s17", "s18", "s19", "s20",
         "s21", "s22", "s23", "s24", "s25", "s26", "s27", "s28", "s29", "s30">>

RECURSIVE NodeCount(_)
RECURSIVE ListCount(_, _)
NodeCount(step) ==
    1 + ListCount(step.then.items, 1) + ListCount(step.else.items, 1)
      + ListCount(step.steps, 1)
ListCount(l, i) ==
    IF i > Len(l) THEN 0 ELSE NodeCount(l[i]) + ListCount(l, i + 1)

\* number the steps that carry an id in traversal order: s1, s2, ...
RECURSIVE LabelStep(_, _)
RECURSIVE LabelList(_, _, _)
LabelStep(step, n) ==
    LET a == n + 1
        b == a + ListCount(step.then.items, 1)
        c == b + ListCount(step.else.items, 1)
    IN [step EXCEPT
          !.id = IF step.id = Fresh THEN Ids[n] ELSE step.id,
          !.then = [step.then EXCEPT !.items = LabelList(step.then.items, 1, a)],
          !.else = [step.else EXCEPT !.items = LabelList(step.else.items, 1, b)],
          !.steps = LabelList(step.steps, 1, c)]
LabelList(l, i, n) ==
    IF i > Len(l) THEN <<>>
    ELSE <<LabelStep(l[i], n)>> \o LabelList(l, i + 1, n + NodeCount(l[i]))

Label(steps) == LabelList(steps, 1, 1)

\* -- trees for the registry and the resolver: every branch shape, nesting two
\*    levels deep, steps without an id
PlainLeaf == Leaf(Fresh, "reply")
LeafLists == SeqsUpTo({PlainLeaf}, MaxBranchLen)
LeafBranches == Branches(LeafLists, {PlainLeaf})

InnerSteps ==
    { PlainLeaf,
      Leaf(None, "reply"),
      Cond(Fresh, ListBranch(<<PlainLeaf>>), AbsentBranch),
      Cond(Fresh, AbsentBranch, SingleBranch(PlainLeaf)),
      Cond(Fresh, WrappedBranch(<<PlainLeaf>>), ListBranch(<<PlainLeaf>>)),
      Container(Fresh, <<PlainLeaf>>),
      Container(Fresh, <<>>),
      Container(None, <<PlainLeaf>>) }
InnerLists == SeqsUpTo(InnerSteps, MaxBranchLen)
InnerBranches == Branches(InnerLists, InnerSteps)
NarrowBranches == {AbsentBranch, ListBranch(<<PlainLeaf>>)}

OuterSteps ==
    {PlainLeaf}
      \cup {Cond(Fresh, t, e) : t \in LeafBranches, e \in LeafBranches}
      \cup {Cond(Fresh, t, e) : t \in InnerBranches, e \in NarrowBranches}
      \cup {Cond(Fresh, t, e) : t \in NarrowBranches, e \in InnerBranches}
      \cup {Container(Fresh, l) : l \in InnerLists}
      \cup {Container(None, <<PlainLeaf>>)}

Around == {<<>>, <<PlainLeaf>>}

TreeFamily ==
    {Label(pre \o <<x>> \o post) : pre \in Around, x \in OuterSteps, post \in Around}

----------------------------------------------------------------------------
(* The registry and the resolver applied to a tree *)

NoCall == [op |-> "none", id |-> None, cr |-> "none", next |-> None,
           keys |-> {}, trace |-> <<>>, outcomes |-> <<>>]

NoFields == [f \in {} |-> None]

\* the session state a flow run started from: how the run before it ended
\* ("none" before the first run) and what that run left in the shared store
NoPrior == [status |-> "none", workflow |-> None, step_id |-> None,
            history |-> <<>>, fields |-> NoFields]

\* the record kept of a matching stage: size of the filtered list, names of
\* the unfiltered list, calls of the scorer, its candidates, and whether
\* post consulted the selection gate
NoMatch == [matches |-> 0, ranked |-> <<>>, scorer_calls |-> 0,
            candidates |-> <<>>, gate |-> FALSE,
            workflows |-> TRUE, keyword_matches |-> <<>>,
            semantic_matches |-> <<>>, all_combined_results |-> <<>>,
            scored |-> <<>>, ambiguous |-> FALSE, kept |-> FALSE]

\* the record kept of a node invocation: what execute_workflow_step was given,
\* which step it dispatched, the steps dispatched so far in this visit's
\* continue-loop (visited), what the external model answered, what it
\* returned, what post returned to the flow, and whether the matching stage
\* before it had found nothing (no_hits)
NoExec == [node |-> "none", status |-> "none", next_step_id |-> None,
           step_id |-> None, action |-> "", field |-> "", tool_name |-> "",
           llm |-> "none",
           raised |-> FALSE, flow_action |-> None,
           selected_before |-> None, pointer_before |-> None,
           history_before |-> <<>>, fields_before |-> NoFields,
           has_fields |-> FALSE,
           no_hits |-> FALSE, first_in_run |-> FALSE, prior |-> NoPrior,
           attempts |-> 0, handlers |-> 0, model_calls |-> 0,
           visited |-> <<>>,
           match |-> NoMatch]

InitTree ==
    /\ wf \in TreeFamily
    /\ pc = "tree"
    /\ selected_workflow = None
    /\ current_step = None
    /\ conversation_history = <<>>
    /\ extracted_fields = NoFields
    /\ runs = 0
    /\ last = NoExec
    /\ call = NoCall

TreeFrame == UNCHANGED <<wf, pc, selected_workflow, current_step,
                         conversation_history, extracted_fields, runs, last>>

\* registry = build_step_registry(steps)
CallBuildRegistry ==
    /\ pc = "tree"
    /\ call.op = "none"
    /\ call' = [NoCall EXCEPT !.op = "registry", !.keys = RegistryKeys(wf)]
    /\ TreeFrame

\* a caller points at a registered step ...
StartWalk ==
    /\ pc = "tree"
    /\ call.op = "none"
    /\ \E id \in RegistryKeys(wf) :
          call' = [NoCall EXCEPT !.op = "start", !.next = id, !.trace = <<id>>]
    /\ TreeFrame

\* ... and asks for its successor again and again, with a boolean outcome at
\* a conditional step and without one elsewhere, as the action handlers do
CallGetNextStepId ==
    /\ pc = "tree"
    /\ call.op \in {"start", "next"}
    /\ call.next \in RegistryKeys(wf)
    /\ \E cr \in (IF RegistryGet(wf, call.next).action = "conditional"
                  THEN {"true", "false"} ELSE {"none"}) :
          LET nxt == get_next_step_id(call.next, wf, cr)
          IN call' = [NoCall EXCEPT !.op = "next", !.id = call.next, !.cr = cr,
                                    !.next = nxt,
                                    !.trace = Append(call.trace, nxt),
                                    !.outcomes = Append(call.outcomes, cr)]
    /\ TreeFrame

NextTree == CallBuildRegistry \/ StartWalk \/ CallGetNextStepId

SpecTree == InitTree /\ [][NextTree]_vars

----------------------------------------------------------------------------
(* The workflows the agent is run on *)

MaxRuns == 2

FetchStep(id, field) ==
    Step(id, "fetch", field, "", AbsentBranch, AbsentBranch, FALSE, <<>>)
ToolStep(id, tool_name) ==
    Step(id, "use_tool", "", tool_name, AbsentBranch, AbsentBranch, FALSE, <<>>)

FlowSteps ==
    { FetchStep(Fresh, "f1"),
      FetchStep(Fresh, "f2"),
      Leaf(Fresh, "reply"),
      Leaf(Fresh, "include"),
      ToolStep(Fresh, "escalation"),
      ToolStep(Fresh, "lookup"),
      Leaf(Fresh, "send_email"),
      Leaf(None, "reply"),
      Cond(Fresh, ListBranch(<<FetchStep(Fresh, "f1"), Leaf(Fresh, "reply")>>),
                  AbsentBranch),
      Cond(Fresh, SingleBranch(Leaf(Fresh, "reply")),
                  ListBranch(<<ToolStep(Fresh, "escalation")>>)),
      Cond(Fresh, AbsentBranch, WrappedBranch(<<Leaf(Fresh, "include")>>)),
      Container(Fresh, <<FetchStep(Fresh, "f2"), Leaf(Fresh, "reply")>>),
      Container(Fresh, <<>>),
      Container(Fresh, <<Container(Fresh, <<Leaf(Fresh, "reply")>>)>>) }

FlowFamily == {Label(l) : l \in SeqsUpTo(FlowSteps, MaxTop) \ {<<>>}}

\* shared["workflows"]: W1 is the workflow under test, W2 a second workflow,
\* W3 .. W6 workflows without steps
Catalog == <<"W1", "W2", "W3", "W4", "W5", "W6">>
Names == {Catalog[i] : i \in DOMAIN Catalog}
SecondWorkflow == Label(<<FetchStep(Fresh, "f2"), Leaf(Fresh, "reply")>>)
StepsOf(name) ==
    IF name = "W1" THEN wf ELSE IF name = "W2" THEN SecondWorkflow ELSE <<>>

Values == {"v1", "v2"}

\* what the external model may answer, by how the parsers read it:
\*   found_v1, found_v2  a mapping with found: true and a value
\*   question            a mapping with found: false and a question
\*   no_question         a mapping with found: false and no question
\*   true                the bare token true (not a mapping)
\*   text                any other text that parses, but not to a mapping
\*   unparseable         text on which the structured parse raises
LLMReplies == {"found_v1", "found_v2", "question", "no_question", "true",
               "text", "unparseable"}

Message(role, content) == [role |-> role, content |-> content]

----------------------------------------------------------------------------
(* action_executor.py *)

\* a slip: a found value is reported back to the user as well
execute_fetch_echo(step, history, reply) ==
    IF reply \in {"found_v1", "found_v2"}
    THEN [found |-> TRUE, value |-> IF reply = "found_v1" THEN "v1" ELSE "v2",
          history |-> Append(history, Message("assistant", "question"))]
    ELSE [found |-> FALSE, value |-> "",
          history |-> Append(history, Message("assistant", "question"))]

\* execute_fetch: [found, value, history]
execute_fetch(step, history, reply) ==
    IF reply = "unparseable"
    THEN [found |-> FALSE, value |-> "",
          history |-> Append(history, Message("assistant", "fallback_question"))]
    ELSE IF reply \in {"found_v1", "found_v2"}
    THEN [found |-> TRUE, value |-> IF reply = "found_v1" THEN "v1" ELSE "v2",
          history |-> history]
    ELSE IF reply = "question"
    THEN [found |-> FALSE, value |-> "",
          history |-> Append(history, Message("assistant", "question"))]
    ELSE [found |-> FALSE, value |-> "", history |-> history]

\* evaluate_condition: response.strip().lower() == "true"
evaluate_condition(reply) == IF reply = "true" THEN "true" ELSE "false"

\* a slip: the reply is phrased but not appended
execute_reply_silent(history) == history

execute_reply(history) == Append(history, Message("assistant", "reply"))

\* a slip: the supplementary information is appended twice
execute_include_twice(history) ==
    Append(Append(history, Message("assistant", "include")),
           Message("assistant", "include"))

execute_include(history) == Append(history, Message("assistant", "include"))

\* a slip: every tool announces a hand-off
execute_tool_announce(step, history) ==
    Append(history, Message("assistant", "escalation"))

execute_tool(step, history) ==
    IF step.tool_name = "escalation"
    THEN Append(history, Message("assistant", "escalation"))
    ELSE history

----------------------------------------------------------------------------
(* workflow_executor.py *)

\* a slip: the status does not look at the successor
determine_workflow_status_always(next_step_id) == "continue"

determine_workflow_status(next_step_id) ==
    IF next_step_id # None THEN "continue" ELSE "complete"

\* build_step_result; has_fields says whether "extracted_fields" is a key
StepResult(status, next_step_id, has_fields, fields, history) ==
    [raised |-> FALSE, status |-> status, next_step_id |-> next_step_id,
     has_fields |-> has_fields, fields |-> fields, history |-> history]

Raised(fields, history) ==
    [raised |-> TRUE, status |-> "none", next_step_id |-> None,
     has_fields |-> FALSE, fields |-> fields, history |-> history]

\* a slip: a fetch that finds nothing moves on like one that does
handle_fetch_action_advance(step, current_step_id, steps, history, fields, reply) ==
    LET result == execute_fetch(step, history, reply)
        next_step_id == get_next_step_id(current_step_id, steps, "none")
    IN IF result.found
       THEN StepResult(determine_workflow_status(next_step_id), next_step_id,
                       TRUE,
                       [f \in DOMAIN fields \cup {step.field} |->
                           IF f = step.field THEN result.value ELSE fields[f]],
                       result.history)
       ELSE StepResult("waiting_for_input", next_step_id, TRUE, fields,
                       result.history)

handle_fetch_action(step, current_step_id, steps, history, fields, reply) ==
    LET result == execute_fetch(step, history, reply)
    IN IF result.found
       THEN LET next_step_id == get_next_step_id(current_step_id, steps, "none")
            IN StepResult(determine_workflow_status(next_step_id), next_step_id,
                          TRUE,
                          [f \in DOMAIN fields \cup {step.field} |->
                              IF f = step.field THEN result.value ELSE fields[f]],
                          result.history)
       ELSE StepResult("waiting_for_input", current_step_id, TRUE, fields,
                       result.history)

\* a slip: the condition outcome is not passed to the resolver
handle_conditional_action_blind(step, current_step_id, steps, history, fields, reply) ==
    LET next_step_id == get_next_step_id(current_step_id, steps, "none")
    IN StepResult(determine_workflow_status(next_step_id), next_step_id,
                  FALSE, fields, history)

handle_conditional_action(step, current_step_id, steps, history, fields, reply) ==
    LET next_step_id ==
            get_next_step_id(current_step_id, steps, evaluate_condition(reply))
    IN StepResult(determine_workflow_status(next_step_id), next_step_id,
                  FALSE, fields, history)

\* reply and include: pause when a successor exists
PauseStatus(next_step_id) ==
    IF next_step_id # None THEN "waiting_for_input" ELSE "complete"

\* a slip: a reply hands back an empty extracted_fields
handle_reply_action_clearing(step, current_step_id, steps, history, fields) ==
    LET next_step_id == get_next_step_id(current_step_id, steps, "none")
    IN StepResult(PauseStatus(next_step_id), next_step_id, TRUE, NoFields,
                  execute_reply(history))

handle_reply_action(step, current_step_id, steps, history, fields) ==
    LET next_step_id == get_next_step_id(current_step_id, steps, "none")
    IN StepResult(PauseStatus(next_step_id), next_step_id, FALSE, fields,
                  execute_reply(history))

handle_tool_action(step, current_step_id, steps, history, fields) ==
    LET next_step_id == get_next_step_id(current_step_id, steps, "none")
    IN StepResult(determine_workflow_status(next_step_id), next_step_id,
                  FALSE, fields, execute_tool(step, history))

\* a slip: an include keeps only its own message
handle_include_action_rewrite(step, current_step_id, steps, history, fields) ==
    LET next_step_id == get_next_step_id(current_step_id, steps, "none")
    IN StepResult(PauseStatus(next_step_id), next_step_id, FALSE, fields,
                  execute_include(<<>>))

handle_include_action(step, current_step_id, steps, history, fields) ==
    LET next_step_id == get_next_step_id(current_step_id, steps, "none")
    IN StepResult(PauseStatus(next_step_id), next_step_id, FALSE, fields,
                  execute_include(history))

\* the step that execute_workflow_step dispatches (lines 278-321): kind
\* "complete" when it returns complete before dispatch
NoDispatch == [kind |-> "complete", id |-> None, step |-> NullStep]
Dispatch(id, step) == [kind |-> "dispatch", id |-> id, step |-> step]

ResolveStep(steps, pointer) ==
    LET first == IF pointer = None THEN get_first_step_id(steps) ELSE pointer
    IN IF first = None \/ first \notin RegistryKeys(steps) THEN NoDispatch
       ELSE LET step == RegistryGet(steps, first)
            IN IF step.hasSteps /\ step.action = "" /\ Len(step.steps) > 0
               THEN LET nested == get_first_step_id(step.steps)
                    IN IF nested = None \/ nested \notin RegistryKeys(steps)
                       THEN NoDispatch
                       ELSE Dispatch(nested, RegistryGet(steps, nested))
               ELSE Dispatch(first, step)

\* a slip: an unrecognised action ends the workflow quietly
Route_lenient(step, id, steps, history, fields, reply) ==
    IF step.action = "fetch"
    THEN handle_fetch_action(step, id, steps, history, fields, reply)
    ELSE IF step.action = "conditional"
    THEN handle_conditional_action(step, id, steps, history, fields, reply)
    ELSE IF step.action = "reply"
    THEN handle_reply_action(step, id, steps, history, fields)
    ELSE IF step.action = "use_tool"
    THEN handle_tool_action(step, id, steps, history, fields)
    ELSE IF step.action = "include"
    THEN handle_include_action(step, id, steps, history, fields)
    ELSE StepResult("complete", None, FALSE, fields, history)

\* the routing to the action handlers (lines 326-350)
Route(step, id, steps, history, fields, reply) ==
    IF step.action = "fetch"
    THEN handle_fetch_action(step, id, steps, history, fields, reply)
    ELSE IF step.action = "conditional"
    THEN handle_conditional_action(step, id, steps, history, fields, reply)
    ELSE IF step.action = "reply"
    THEN handle_reply_action(step, id, steps, history, fields)
    ELSE IF step.action = "use_tool"
    THEN handle_tool_action(step, id, steps, history, fields)
    ELSE IF step.action = "include"
    THEN handle_include_action(step, id, steps, history, fields)
    ELSE Raised(fields, history)

\* a slip: a workflow without steps is treated like no workflow at all
validate_workflow_execution_merged(selected) ==
    IF selected = None THEN "no_workflow"
    ELSE IF Len(StepsOf(selected)) = 0 THEN "no_workflow"
    ELSE "valid"

\* validate_workflow_execution: the status it reports, "valid" for none
validate_workflow_execution(selected) ==
    IF selected = None THEN "no_workflow"
    ELSE IF Len(StepsOf(selected)) = 0 THEN "complete"
    ELSE "valid"

\* the step an invocation dispatches, NoDispatch when it returns before
DispatchOf(selected, pointer) ==
    IF validate_workflow_execution(selected) # "valid" THEN NoDispatch
    ELSE ResolveStep(StepsOf(selected), pointer)

\* handlers entered by the routing: one for a recognised action
Handlers(d) ==
    IF d.kind = "dispatch"
       /\ d.step.action \in {"fetch", "conditional", "reply", "use_tool",
                              "include"}
    THEN 1 ELSE 0

\* calls of the external model made by the handler of the dispatched step
ModelCalls(d) ==
    IF d.kind # "dispatch" THEN 0
    ELSE IF d.step.action \in {"fetch", "conditional", "reply", "include"} THEN 1
    ELSE IF d.step.action = "use_tool" /\ d.step.tool_name = "escalation" THEN 1
    ELSE 0

\* the constants document: a mapping that may carry default_prerequisites,
\* a list of field names
NoPrerequisites == [has |-> FALSE, default_prerequisites |-> <<>>]
Prerequisites(l) == [has |-> TRUE, default_prerequisites |-> l]
ConstantsDocs ==
    {NoPrerequisites, Prerequisites(<<>>), Prerequisites(<<"state">>),
     Prerequisites(<<"account">>), Prerequisites(<<"account", "state">>)}

\* a slip: a missing state prerequisite is asked for before the first step
check_and_handle_prerequisites_asking(id, steps, constants, history) ==
    IF id # get_first_step_id(steps) THEN history
    ELSE IF \E i \in DOMAIN constants.default_prerequisites :
               constants.default_prerequisites[i] = "state"
    THEN Append(history, Message("assistant", "question"))
    ELSE history

\* the loop over the messages for the prerequisite "state" (lines 84-89): it
\* reads each content and does nothing with it
RECURSIVE ScanForState(_, _)
ScanForState(history, i) ==
    IF i > Len(history) THEN history ELSE ScanForState(history, i + 1)

RECURSIVE PrerequisiteLoop(_, _, _)
PrerequisiteLoop(default_prereqs, i, history) ==
    IF i > Len(default_prereqs) THEN history
    ELSE PrerequisiteLoop(default_prereqs, i + 1,
                          IF default_prereqs[i] = "state"
                          THEN ScanForState(history, 1)
                          ELSE history)

\* check_and_handle_prerequisites: the conversation history it leaves
check_and_handle_prerequisites(current_step_id, steps, constants, history) ==
    IF current_step_id # get_first_step_id(steps) THEN history
    ELSE PrerequisiteLoop(IF constants.has
                          THEN constants.default_prerequisites ELSE <<>>,
                          1, history)

\* shared["constants"] of a flow run: a document without the key or one
\* that lists the state prerequisite
SharedConstants == {NoPrerequisites, Prerequisites(<<"account", "state">>)}

execute_workflow_step(selected, pointer, history, fields, reply, constants) ==
    IF validate_workflow_execution(selected) # "valid"
    THEN StepResult(validate_workflow_execution(selected), None, FALSE,
                    fields, history)
    ELSE LET d == ResolveStep(StepsOf(selected), pointer)
         IN IF d.kind = "complete"
            THEN StepResult("complete", None, FALSE, fields, history)
            ELSE Route(d.step, d.id, StepsOf(selected),
                       check_and_handle_prerequisites(
                          d.id, StepsOf(selected), constants, history),
                       fields, reply)

----------------------------------------------------------------------------
(* workflow_matcher.py, match_workflow.py *)

Confidences == {50, 52, 100}   \* confidences in hundredths

\* a confidence that is not a number (a word, null), as yaml.safe_load gives
\* it: coded above every number, in the order Python gives the strings
TextBase == 1000

TextConfidences == {TextBase + 1, TextBase + 2}

IsText(c) == c > TextBase

\* match_workflows(semantic_k=5, semantic_min_score=0.35,
\* min_combined_score=0.5), scores in hundredths
semantic_k == 5

semantic_min_score == 35

min_combined_score == 50

\* all_combined_results[:5]
TopCandidates == 5

\* combined_scores[workflow_name] = 0.5 for a keyword-only match
keyword_only_score == 50

\* default_score = 0.5 in score_workflows_llm
default_score == 50

NamesOf(pairs) == [i \in DOMAIN pairs |-> pairs[i][1]]

Prefix(seq, n) == SubSeq(seq, 1, IF Len(seq) < n THEN Len(seq) ELSE n)

Min(a, b) == IF a < b THEN a ELSE b

\* sort(key=score, reverse=True): stable, highest first
RECURSIVE SortByConfidence(_)
SortByConfidence(scores) ==
    IF Len(scores) <= 1 THEN scores
    ELSE LET rest == SortByConfidence(Tail(scores))
             head == Head(scores)
             \* entries of rest that stay in front of head: strictly higher
             k == Cardinality({i \in DOMAIN rest :
                                  \A j \in 1..i : rest[j][2] > head[2]})
         IN SubSeq(rest, 1, k) \o <<head>> \o SubSeq(rest, k + 1, Len(rest))

\* d[key] = value on a dict kept as a list of items: a new key goes to the
\* end, a known key keeps its place
DictSet(d, key, value) ==
    IF \E i \in DOMAIN d : d[i][1] = key
    THEN [i \in DOMAIN d |-> IF d[i][1] = key THEN <<key, value>> ELSE d[i]]
    ELSE Append(d, <<key, value>>)

DictHas(d, key) == \E i \in DOMAIN d : d[i][1] = key

DictGet(d, key) == d[CHOOSE i \in DOMAIN d : d[i][1] = key][2]

\* np.argsort(scores)[::-1]: the example indices by similarity, highest
\* first; the order among equal similarities is whatever the sort gives
RECURSIVE ArgsortDescending(_, _)
ArgsortDescending(examples, left) ==
    IF left = {} THEN {<<>>}
    ELSE UNION {{<<i>> \o rest :
                    rest \in ArgsortDescending(examples, left \ {i})} :
                i \in {j \in left :
                         \A m \in left : examples[j][2] >= examples[m][2]}}

\* a slip: the lowest similarity of a workflow is kept, not the highest
RECURSIVE AggregateMax_lowest(_, _)
AggregateMax_lowest(workflow_scores, results) ==
    IF results = <<>> THEN workflow_scores
    ELSE LET e == Head(results)
         IN AggregateMax_lowest(
               IF ~DictHas(workflow_scores, e[1])
               THEN DictSet(workflow_scores, e[1], e[2])
               ELSE DictSet(workflow_scores, e[1],
                            Min(e[2], DictGet(workflow_scores, e[1]))),
               Tail(results))

\* SemanticMatcher.match, lines 57-61: the highest similarity per workflow
RECURSIVE AggregateMax(_, _)
AggregateMax(workflow_scores, results) ==
    IF results = <<>> THEN workflow_scores
    ELSE LET e == Head(results)
         IN AggregateMax(
               IF \/ ~DictHas(workflow_scores, e[1])
                  \/ e[2] > DictGet(workflow_scores, e[1])
               THEN DictSet(workflow_scores, e[1], e[2])
               ELSE workflow_scores,
               Tail(results))

\* SemanticMatcher.match on the examples' (workflow, similarity) pairs and
\* the index order argsort gave
match(examples, order, k, min_score) ==
    IF Len(examples) = 0 THEN <<>>
    ELSE LET top_idx == Prefix(order, k)
             results ==
                SelectSeq([i \in DOMAIN top_idx |-> examples[top_idx[i]]],
                          LAMBDA e : e[2] >= min_score)
         IN IF Len(results) = 0 THEN <<>>
            ELSE IF results[1][2] < min_score THEN <<>>
            ELSE SortByConfidence(AggregateMax(<<>>, results))

\* filter_workflows_by_examples
filter_workflows_by_examples(examples, order) ==
    IF Len(examples) = 0 THEN <<>>
    ELSE match(examples, order, semantic_k, semantic_min_score)

\* a slip: the boost is given without the cap at 1.0
Boost_uncapped(score) == (score * 12) \div 10

\* min(1.0, score * 1.2) in hundredths
Boost(score) == Min(100, (score * 12) \div 10)

RECURSIVE CombineSemantic(_, _, _)
CombineSemantic(combined_scores, semantic_matches, keyword_set) ==
    IF semantic_matches = <<>> THEN combined_scores
    ELSE LET e == Head(semantic_matches)
         IN CombineSemantic(
               DictSet(combined_scores, e[1],
                       IF e[1] \in keyword_set THEN Boost(e[2]) ELSE e[2]),
               Tail(semantic_matches), keyword_set)

RECURSIVE CombineKeywordOnly(_, _)
CombineKeywordOnly(combined_scores, keyword_matches) ==
    IF keyword_matches = <<>> THEN combined_scores
    ELSE CombineKeywordOnly(
            IF DictHas(combined_scores, Head(keyword_matches))
            THEN combined_scores
            ELSE DictSet(combined_scores, Head(keyword_matches),
                         keyword_only_score),
            Tail(keyword_matches))

\* combine_matching_results
combine_matching_results(keyword_matches, semantic_matches, min_score) ==
    LET keyword_set == {keyword_matches[i] : i \in DOMAIN keyword_matches}
        combined_scores ==
           CombineKeywordOnly(
              CombineSemantic(<<>>, semantic_matches, keyword_set),
              keyword_matches)
    IN SortByConfidence(
          SelectSeq(combined_scores, LAMBDA e : e[2] >= min_score))

\* a slip: the filter keeps only entries strictly above the threshold
filter_low_combined_scores_strict(combined_results, min_score_threshold) ==
    SelectSeq(combined_results, LAMBDA e : e[2] > min_score_threshold)

\* filter_low_combined_scores
filter_low_combined_scores(combined_results, min_score_threshold) ==
    SelectSeq(combined_results, LAMBDA e : e[2] >= min_score_threshold)

\* match_workflows on what the two filters returned: the filtered and the
\* unfiltered ranked list
match_workflows(keyword_matches, semantic_matches) ==
    LET all_combined_results ==
           combine_matching_results(keyword_matches, semantic_matches, 0)
    IN [filtered_results |->
           filter_low_combined_scores(all_combined_results,
                                      min_combined_score),
        all_combined_results |-> all_combined_results]

\* the workflow names, from the n-th on and around
Rot(n) == Catalog[((n - 1) % Len(Catalog)) + 1]

\* similarity of the i-th example: the first `high` ones are strong
Similarity(i, high) == IF i <= high THEN 65 - 5 * i ELSE 46 - i

\* what one user input gives the matching stage: the workflows the keyword
\* filter returns and the similarity of every example (one example for each
\* of nsem workflows and a second, weak one for the first workflow)
MatchInput(start, nsem, high, kw) ==
    [workflows |-> TRUE,
     keyword_matches |->
        IF kw = "none" THEN <<>>
        ELSE IF kw = "first" THEN <<Rot(start)>>
        ELSE <<Rot(start + nsem)>>,
     examples |->
        [i \in 1..nsem |-> <<Rot(start + i - 1), Similarity(i, high)>>]
           \o <<<<Rot(start), 30>>>>]

\* extract_workflows(shared) is empty
EmptyCatalog == [workflows |-> FALSE, keyword_matches |-> <<>>,
                 examples |-> <<>>]

MatchInputs ==
    {EmptyCatalog}
       \cup {MatchInput(start, nsem, high, kw) :
                start \in 1..3, nsem \in {0, 1, 2, semantic_k},
                high \in 0..2, kw \in {"none", "first", "beyond"}}

\* the semantic matches of an input, for the order argsort gave
SemanticMatchesOf(inp) ==
    {filter_workflows_by_examples(inp.examples, order) :
        order \in ArgsortDescending(inp.examples, DOMAIN inp.examples)}

\* a scorer response: whether it carries a ```yaml fence, what yaml.safe_load
\* makes of its text ("list" of items, "mapping" of workflow to value,
\* "nested" mapping of workflow to {confidence: value}, a "scalar", or
\* "invalid" YAML), and the (workflow_id, confidence) entries in its order
Response(fenced, shape, items) ==
    [fenced |-> fenced, shape |-> shape, items |-> items]

\* the scorer responses of a matching stage
ScorerReplies(candidates) ==
    LET few == {candidates[i] : i \in DOMAIN candidates \cap 1..2}
        pairs == {l \in {<<<<n1, c1>>, <<n2, c2>>>> :
                            n1 \in few, n2 \in few,
                            c1 \in Confidences, c2 \in Confidences} :
                     l[1][1] # l[2][1]}
        first == candidates[1]
        others == {candidates[i] : i \in DOMAIN candidates \cap 2..2}
    IN {Response(TRUE, "invalid", <<>>)}
         \cup {Response(TRUE, "list", <<<<n, c>>>>) :
                  n \in few \cup {"W6"}, c \in Confidences}
         \cup {Response(TRUE, "list", l) : l \in pairs}
         \cup {Response(FALSE, shape, <<<<first, TextBase + 1>>>>) :
                  shape \in {"list", "mapping", "nested"}}
         \cup {Response(FALSE, "nested",
                        <<<<first, TextBase + 1>>, <<second, c>>>>) :
                  second \in others, c \in {50, TextBase + 2}}

\* response[yaml_start + 7:yaml_end].strip(), or response.strip()
YamlOf(response) == [shape |-> response.shape, items |-> response.items]

\* _parse_confidence_scores_yaml
_parse_confidence_scores_yaml(response, workflow_names) ==
    LET data == YamlOf(response)
        known == SelectSeq(data.items, LAMBDA e : e[1] \in workflow_names)
    IN IF data.shape = "list"
       THEN \* float(confidence) raises on a word, the handler returns []
            IF \E i \in DOMAIN known : IsText(known[i][2]) THEN <<>>
            ELSE known
       ELSE IF data.shape = "mapping"
       THEN [i \in DOMAIN known |->
               <<known[i][1], IF IsText(known[i][2]) THEN 0 ELSE known[i][2]>>]
       ELSE IF data.shape = "nested"
       THEN known
       ELSE <<>>

\* score_workflows_llm up to the sort: the parsed scores, or 0.5 for every
\* candidate when there are none
ScoresToSort(candidates, response) ==
    LET scores == _parse_confidence_scores_yaml(
                     response, {candidates[i] : i \in DOMAIN candidates})
    IN IF Len(scores) = 0
       THEN [i \in DOMAIN candidates |-> <<candidates[i], default_score>>]
       ELSE scores

\* scores.sort raises TypeError when it compares a number with a word
SortRaises(scores) ==
    \E i \in DOMAIN scores, j \in DOMAIN scores :
        IsText(scores[i][2]) # IsText(scores[j][2])

\* score_workflows_llm: whether it raises, and the list it returns if not
score_workflows_llm_raises(candidates, response) ==
    SortRaises(ScoresToSort(candidates, response))

score_workflows_llm(candidates, response) ==
    SortByConfidence(ScoresToSort(candidates, response))

\* a slip: a lone workflow is held to the gap as well
meets_selection_criteria_lone(scored_workflows, min_confidence_gap) ==
    IF Len(scored_workflows) = 0 THEN FALSE
    ELSE IF Len(scored_workflows) = 1
    THEN ~(scored_workflows[1][2] < min_confidence_gap)
    ELSE ~(scored_workflows[1][2] - scored_workflows[2][2] < min_confidence_gap)

meets_selection_criteria(scored_workflows, min_confidence_gap) ==
    IF Len(scored_workflows) = 0 THEN FALSE
    ELSE IF Len(scored_workflows) = 1 THEN TRUE
    ELSE ~(scored_workflows[1][2] - scored_workflows[2][2] < min_confidence_gap)

\* top_confidence - second_confidence raises TypeError on a word
meets_selection_criteria_raises(scored_workflows) ==
    /\ Len(scored_workflows) >= 2
    /\ \/ IsText(scored_workflows[1][2])
       \/ IsText(scored_workflows[2][2])

\* a slip: a single filtered match is scored as well
MatchExec_scoreSingle(all_combined_results, reply) ==
    LET matches == filter_low_combined_scores(all_combined_results,
                                              min_combined_score)
        candidates == IF Len(matches) = 0
                      THEN NamesOf(Prefix(all_combined_results, TopCandidates))
                      ELSE NamesOf(matches)
        scored == score_workflows_llm(candidates, reply)
    IN IF Len(all_combined_results) = 0
       THEN [result |-> None, has_scored |-> FALSE, scored |-> <<>>,
             matches |-> Len(matches), scorer_calls |-> 0,
             candidates |-> <<>>, raised |-> FALSE]
       ELSE [result |-> scored[1][1], has_scored |-> TRUE, scored |-> scored,
             matches |-> Len(matches), scorer_calls |-> 1,
             candidates |-> candidates,
             raised |-> score_workflows_llm_raises(candidates, reply)]

\* MatchWorkflowNode.exec (lines 84-126) on what match_workflows returned
MatchExec(all_combined_results, reply) ==
    LET matches == filter_low_combined_scores(all_combined_results,
                                              min_combined_score)
    IN IF Len(matches) = 0
       THEN IF Len(all_combined_results) > 0
            THEN LET candidates ==
                        NamesOf(Prefix(all_combined_results, TopCandidates))
                     scored == score_workflows_llm(candidates, reply)
                 IN [result |-> IF Len(scored) > 0 THEN scored[1][1] ELSE None,
                     has_scored |-> TRUE, scored |-> scored,
                     matches |-> 0, scorer_calls |-> 1,
                     candidates |-> candidates,
                     raised |-> score_workflows_llm_raises(candidates, reply)]
            ELSE [result |-> None, has_scored |-> FALSE, scored |-> <<>>,
                  matches |-> 0, scorer_calls |-> 0, candidates |-> <<>>,
                  raised |-> FALSE]
       ELSE IF Len(matches) = 1
       THEN [result |-> matches[1][1], has_scored |-> FALSE, scored |-> <<>>,
             matches |-> 1, scorer_calls |-> 0, candidates |-> <<>>,
             raised |-> FALSE]
       ELSE LET candidates == NamesOf(matches)
                scored == score_workflows_llm(candidates, reply)
            IN [result |-> IF Len(scored) > 0 THEN scored[1][1] ELSE None,
                has_scored |-> TRUE, scored |-> scored,
                matches |-> Len(matches), scorer_calls |-> 1,
                candidates |-> candidates,
                raised |-> score_workflows_llm_raises(candidates, reply)]

\* the replies the scorer can give in this matching stage; no reply is read
\* when the scorer is not called
RepliesFor(all_combined_results) ==
    IF MatchExec(all_combined_results, Response(TRUE, "invalid", <<>>))
          .scorer_calls = 0
    THEN {Response(TRUE, "invalid", <<>>)}
    ELSE ScorerReplies(
            MatchExec(all_combined_results,
                      Response(TRUE, "invalid", <<>>)).candidates)

----------------------------------------------------------------------------
(* The flow: load_benchmark >> match_workflow - "default" >> execute_workflow,
   execute_workflow - "continue" >> execute_workflow *)

Init ==
    /\ wf \in FlowFamily
    /\ pc = "idle"
    /\ selected_workflow = None
    /\ current_step = None
    /\ conversation_history = <<>>
    /\ extracted_fields = NoFields
    /\ runs = 0
    /\ last = NoExec
    /\ call = NoCall

\* flow.run(shared) starts with LoadBenchmarkNode, whose post puts the user
\* input into a fresh conversation history
LoadBenchmarkNode ==
    /\ pc \in {"idle", "done", "error"}
    /\ runs < MaxRuns
    /\ runs' = runs + 1
    /\ conversation_history' = <<Message("user", "input")>>
    /\ pc' = "match"
    /\ last' = [NoExec EXCEPT
                  !.node = "load", !.flow_action = "default",
                  !.prior = [status |-> IF last.raised THEN "raised"
                                        ELSE last.status,
                             workflow |-> selected_workflow,
                             step_id |-> current_step,
                             history |-> conversation_history,
                             fields |-> extracted_fields]]
    /\ UNCHANGED <<wf, selected_workflow, current_step, extracted_fields, call>>

\* a slip: with nothing matched the first workflow of the catalog is returned
MatchNodeExec_firstOfCatalog(inp, semantic_matches, reply) ==
    IF \/ ~inp.workflows
       \/ Len(match_workflows(inp.keyword_matches, semantic_matches)
                 .all_combined_results) = 0
    THEN [result |-> Catalog[1], has_scored |-> FALSE, scored |-> <<>>,
          matches |-> 0, scorer_calls |-> 0, candidates |-> <<>>,
          raised |-> FALSE]
    ELSE MatchExec(match_workflows(inp.keyword_matches, semantic_matches)
                      .all_combined_results,
                   reply)

\* MatchWorkflowNode.exec, lines 42-82: nothing is matched on an empty
\* catalog, otherwise match_workflows runs on what the two filters return
MatchNodeExec(inp, semantic_matches, reply) ==
    IF ~inp.workflows
    THEN [result |-> None, has_scored |-> FALSE, scored |-> <<>>,
          matches |-> 0, scorer_calls |-> 0, candidates |-> <<>>,
          raised |-> FALSE]
    ELSE MatchExec(match_workflows(inp.keyword_matches, semantic_matches)
                      .all_combined_results,
                   reply)

\* every course MatchWorkflowNode.exec can take: an input, the semantic
\* matches and the unfiltered list it gives, the scorer's response and what
\* exec returns
MatchCasesOf(inp) ==
    UNION {{[inp |-> inp,
             semantic_matches |-> semantic_matches,
             all_combined_results |->
                match_workflows(inp.keyword_matches, semantic_matches)
                   .all_combined_results,
             reply |-> reply,
             r |-> MatchNodeExec(inp, semantic_matches, reply)] :
               reply \in RepliesFor(
                            match_workflows(inp.keyword_matches,
                                            semantic_matches)
                               .all_combined_results)} :
           semantic_matches \in SemanticMatchesOf(inp)}

MatchCases == UNION {MatchCasesOf(inp) : inp \in MatchInputs}

\* a slip: every action of the matching node leads on to the interpreter
MatchSuccessor_any(action) == "execute"

\* flow.py: match_node - "default" >> execute_node is the node's only
\* successor; a run ends on any other action
MatchSuccessor(action) == IF action = "default" THEN "execute" ELSE "done"

\* the matching stage: exec on what the filters and the scorer return, then
\* post with the gap it hands to the selection gate; `observed` says whether
\* the stage's record is kept
MatchStage(observed, min_confidence_gap) ==
    /\ pc = "match"
    /\ \E c \in MatchCases :
          LET r == c.r
              seen == [NoExec EXCEPT
                         !.node = "match",
                         !.prior = last.prior,
                         !.match =
                            IF observed
                            THEN [matches |-> r.matches,
                                  ranked |-> NamesOf(c.all_combined_results),
                                  scorer_calls |-> r.scorer_calls,
                                  candidates |-> r.candidates,
                                  gate |-> FALSE,
                                  workflows |-> c.inp.workflows,
                                  keyword_matches |-> c.inp.keyword_matches,
                                  semantic_matches |-> c.semantic_matches,
                                  all_combined_results |->
                                     c.all_combined_results,
                                  scored |-> r.scored,
                                  ambiguous |-> FALSE,
                                  kept |-> TRUE]
                            ELSE NoMatch]
          IN
          IF r.raised
          THEN \* score_workflows_llm raised in exec: the run ends there
               /\ pc' = "error"
               /\ last' = [seen EXCEPT !.raised = TRUE]
               /\ UNCHANGED <<selected_workflow, conversation_history>>
          ELSE IF r.result = None
          THEN /\ selected_workflow' = None
               /\ pc' = MatchSuccessor("default")
               /\ last' = [seen EXCEPT !.flow_action = "default"]
               /\ UNCHANGED conversation_history
          ELSE IF ~r.has_scored
          THEN /\ selected_workflow' = r.result
               /\ pc' = MatchSuccessor("default")
               /\ last' = [seen EXCEPT !.flow_action = "default"]
               /\ UNCHANGED conversation_history
          ELSE IF meets_selection_criteria_raises(r.scored)
          THEN \* the gate raised in post, before anything was stored
               /\ pc' = "error"
               /\ last' = [seen EXCEPT !.raised = TRUE,
                                       !.match.gate = observed]
               /\ UNCHANGED <<selected_workflow, conversation_history>>
          ELSE IF meets_selection_criteria(r.scored, min_confidence_gap)
          THEN /\ selected_workflow' = r.scored[1][1]
               /\ pc' = MatchSuccessor("default")
               /\ last' = [seen EXCEPT !.flow_action = "default",
                                       !.match.gate = observed]
               /\ UNCHANGED conversation_history
          ELSE /\ selected_workflow' = None
               /\ conversation_history' =
                     Append(conversation_history,
                            Message("assistant", "clarification"))
               /\ pc' = MatchSuccessor("clarify")
               /\ last' = [seen EXCEPT !.flow_action = "clarify",
                                       !.status = "clarify",
                                       !.match.gate = observed,
                                       !.match.ambiguous = observed]
    /\ UNCHANGED <<wf, current_step, extracted_fields, runs, call>>

\* post calls meets_selection_criteria(scored_workflows, min_confidence_gap=0.0)
post_min_confidence_gap == 0

\* meets_selection_criteria(scored_workflows, min_confidence_gap=0.05): the
\* gap of a caller that leaves the argument out
default_min_confidence_gap == 5

MatchWorkflowNode == MatchStage(FALSE, post_min_confidence_gap)

MatchWorkflowNodeObserved == MatchStage(TRUE, post_min_confidence_gap)

\* the matching stage of a caller that uses the gate's own default gap
MatchWorkflowNodeDefaultGap == MatchStage(TRUE, default_min_confidence_gap)

\* a slip: post never stores the next step
PostPointer_cleared(res) == None

\* ExecuteWorkflowNode.post: the pointer it stores
PostPointer(res) ==
    IF res.status \in {"complete", "no_workflow"} THEN None ELSE res.next_step_id

\* a slip: the flow also loops after a pause
PostAction_loop(res) ==
    IF res.status \in {"complete", "no_workflow"} THEN None
    ELSE IF res.next_step_id # None THEN "continue"
    ELSE None

\* ExecuteWorkflowNode.post: the action it returns to the flow
PostAction(res) ==
    IF res.status \in {"complete", "no_workflow", "waiting_for_input"} THEN None
    ELSE IF res.next_step_id # None THEN "continue"
    ELSE None

\* Node(max_retries=1): exec is attempted max_retries times while it raises;
\* the exception of the last attempt leaves the flow run
max_retries == 1

\* a slip: the last failure is swallowed instead of handed to exec_fallback
ExecLoop_swallow(retries, outcomes, cur_retry) ==
    LET failed == {i \in 1..retries : outcomes[i] = "raise"}
        firstOk == {i \in 1..retries : outcomes[i] # "raise"
                                       /\ \A j \in 1..(i - 1) : j \in failed}
    IN IF firstOk = {}
       THEN [calls |-> retries, fallbacks |-> 0, raised |-> FALSE,
             value |-> None]
       ELSE [calls |-> CHOOSE i \in firstOk : TRUE, fallbacks |-> 0,
             raised |-> FALSE, value |-> outcomes[CHOOSE i \in firstOk : TRUE]]

\* Node._exec: the loop `for cur_retry in range(max_retries)`; outcomes[i] is
\* what the i-th call of exec does, "raise" or the value it returns. The
\* default exec_fallback raises the exception it is given.
RECURSIVE ExecLoop(_, _, _)
ExecLoop(retries, outcomes, cur_retry) ==
    IF cur_retry >= retries
    THEN [calls |-> cur_retry, fallbacks |-> 0, raised |-> FALSE,
          value |-> None]
    ELSE IF outcomes[cur_retry + 1] # "raise"
    THEN [calls |-> cur_retry + 1, fallbacks |-> 0, raised |-> FALSE,
          value |-> outcomes[cur_retry + 1]]
    ELSE IF cur_retry = retries - 1
    THEN [calls |-> cur_retry + 1, fallbacks |-> 1, raised |-> TRUE,
          value |-> None]
    ELSE ExecLoop(retries, outcomes, cur_retry + 1)

_exec(retries, outcomes) == ExecLoop(retries, outcomes, 0)

\* BaseNode._run: prep, _exec, post; post is not reached when _exec raises
_run(retries, outcomes) ==
    [exec |-> _exec(retries, outcomes),
     post_calls |-> IF _exec(retries, outcomes).raised THEN 0 ELSE 1]

\* the record of a continue-loop's dispatches stops growing once it shows a
\* step dispatched twice
HasRepeat(visited) ==
    \E i, j \in DOMAIN visited : i < j /\ visited[i] = visited[j]

\* one visit of ExecuteWorkflowNode: prep, exec, post; post is not reached
\* when exec raises
ExecuteWorkflowNode ==
    /\ pc = "execute"
    /\ \E reply \in LLMReplies, constants \in SharedConstants :
       \E res \in {execute_workflow_step(selected_workflow, current_step,
                                         conversation_history,
                                         extracted_fields, reply,
                                         constants)} :
       \E d \in {DispatchOf(selected_workflow, current_step)} :
          LET seen == [NoExec EXCEPT
                         !.node = "execute",
                         !.step_id = d.id,
                         !.action = d.step.action,
                         !.field = d.step.field,
                         !.tool_name = d.step.tool_name,
                         !.llm = IF d.step.action = "fetch" THEN reply
                                 ELSE IF d.step.action = "conditional"
                                 THEN evaluate_condition(reply)
                                 ELSE "none",
                         !.selected_before = selected_workflow,
                         !.pointer_before = current_step,
                         !.history_before = conversation_history,
                         !.fields_before = extracted_fields,
                         !.no_hits = (/\ last.node = "match"
                                       /\ last.match.kept
                                       /\ last.match.keyword_matches = <<>>
                                       /\ last.match.semantic_matches = <<>>),
                         !.first_in_run = (last.node = "match"),
                         !.prior = last.prior,
                         !.attempts =
                            _exec(max_retries,
                                  [i \in 1..max_retries |->
                                      IF res.raised THEN "raise"
                                      ELSE res.status]).calls,
                         !.visited =
                            IF last.node # "execute" THEN <<d.id>>
                            ELSE IF HasRepeat(last.visited)
                            THEN last.visited
                            ELSE Append(last.visited, d.id),
                         !.handlers = Handlers(d),
                         !.model_calls = ModelCalls(d)]
          IN IF res.raised
             THEN /\ pc' = "error"
                  /\ last' = [seen EXCEPT !.raised = TRUE]
                  /\ UNCHANGED <<current_step, conversation_history,
                                 extracted_fields>>
             ELSE /\ conversation_history' = res.history
                  /\ extracted_fields' = res.fields
                  /\ current_step' = PostPointer(res)
                  /\ pc' = IF PostAction(res) = "continue" THEN "execute"
                           ELSE "done"
                  /\ last' = [seen EXCEPT
                                !.status = res.status,
                                !.next_step_id = res.next_step_id,
                                !.has_fields = res.has_fields,
                                !.flow_action = PostAction(res)]
    /\ UNCHANGED <<wf, selected_workflow, runs, call>>

Next == LoadBenchmarkNode \/ MatchWorkflowNode \/ ExecuteWorkflowNode

Spec == Init /\ [][Next]_vars

\* the continue-loop on its own: the state in which the matching stage has
\* selected the workflow under test, with no pointer or the pointer an
\* earlier run left. Flow._orch runs the next node as long as there is one,
\* so a visit of ExecuteWorkflowNode that is due is made.
InitLoop ==
    /\ wf \in FlowFamily
    /\ pc = "execute"
    /\ selected_workflow = "W1"
    /\ current_step \in {None} \cup RegistryKeys(wf)
    /\ conversation_history = <<Message("user", "input")>>
    /\ extracted_fields = NoFields
    /\ runs = 1
    /\ last = [NoExec EXCEPT !.node = "match", !.flow_action = "default"]
    /\ call = NoCall

NextLoop == ExecuteWorkflowNode

SpecLive == InitLoop /\ [][NextLoop]_vars /\ WF_vars(ExecuteWorkflowNode)

\* the same flow on the one-step workflows, keeping the record of each
\* matching stage
InitMatch ==
    /\ Init
    /\ Len(wf) = 1

NextMatch ==
    LoadBenchmarkNode \/ MatchWorkflowNodeObserved \/ ExecuteWorkflowNode

SpecMatch == InitMatch /\ [][NextMatch]_vars

\* the same, with the selection gate at its default gap
NextClarify ==
    LoadBenchmarkNode \/ MatchWorkflowNodeDefaultGap \/ ExecuteWorkflowNode

SpecClarify == InitMatch /\ [][NextClarify]_vars

----------------------------------------------------------------------------
(* The same flow on workflows in which the id "d" is given to several      *)
(* steps: at the top level, in the branches of a conditional, in a         *)
(* container, and under a container without id                             *)

MaxDup == 3

DupSteps ==
    { Leaf("d", "reply"),
      Leaf("d", "include"),
      FetchStep("d", "f1"),
      Cond(Fresh, ListBranch(<<Leaf("d", "include")>>),
                  SingleBranch(Leaf("d", "reply"))),
      Container(Fresh, <<FetchStep("d", "f1")>>),
      Container(None, <<Leaf("d", "include")>>) }

DupFamily ==
    {Label(l) : l \in {x \in SeqsUpTo(DupSteps, MaxDup) : Len(x) >= 2}}

InitDup ==
    /\ wf \in DupFamily
    /\ pc = "idle"
    /\ selected_workflow = None
    /\ current_step = None
    /\ conversation_history = <<>>
    /\ extracted_fields = NoFields
    /\ runs = 0
    /\ last = NoExec
    /\ call = NoCall

SpecDup == InitDup /\ [][Next]_vars

----------------------------------------------------------------------------
(* The functions of the matching stage and the response parsers on their   *)
(* own: each call is recorded with its arguments and what it returned.     *)

FnWorkflows == {"W1", "W2", "W3"}

\* what filter_workflows_by_keywords can return: workflows in catalog order
KeywordLists ==
    {SelectSeq(Catalog, LAMBDA n : n \in picked) : picked \in SUBSET FnWorkflows}

\* similarities in hundredths, from the minimum 0.35 up
SemanticScores == {35, 45, 50, 85, 100}

MaxSemantic == 2

\* what filter_workflows_by_examples can return: distinct workflows, highest
\* similarity first
SemanticLists ==
    {l \in UNION {[1..n -> FnWorkflows \X SemanticScores] : n \in 0..MaxSemantic} :
        /\ \A i \in DOMAIN l, j \in DOMAIN l : i # j => l[i][1] # l[j][1]
        /\ \A i \in DOMAIN l, j \in DOMAIN l : i < j => l[i][2] >= l[j][2]}

\* the examples of a catalog with the similarity of each to the user input
ExampleSimilarities == {30, 35, 60, 90}

MaxExamples == 3

ExampleLists ==
    UNION {[1..n -> {"W1", "W2"} \X ExampleSimilarities] : n \in 0..MaxExamples}

\* scored lists handed to the selection gate
GateConfidences == {0, 50, 52, 100}

MaxScored == 3

ScoredLists ==
    {[i \in 1..n |-> <<Catalog[i], f[i]>>] :
        n \in 0..MaxScored, f \in [1..MaxScored -> GateConfidences]}

Gaps == {0, 5, 100}

\* scorer responses of every shape, with numbers and words as confidences
ResponseItems ==
    {l \in UNION {[1..n -> {"W1", "W2", "W6"}
                             \X ({0, 50, 100} \cup TextConfidences)] :
                     n \in 0..2} :
        \A i \in DOMAIN l, j \in DOMAIN l : i # j => l[i][1] # l[j][1]}

Responses ==
    {Response(fenced, shape, items) :
        fenced \in BOOLEAN, shape \in {"list", "mapping", "nested"},
        items \in ResponseItems}
       \cup {Response(fenced, shape, <<>>) :
                fenced \in BOOLEAN, shape \in {"scalar", "invalid"}}

CandidateLists == {<<"W1">>, <<"W1", "W2">>, <<"W2", "W1", "W3">>}

InitFn ==
    /\ wf = <<>>
    /\ pc = "fn"
    /\ selected_workflow = None
    /\ current_step = None
    /\ conversation_history = <<>>
    /\ extracted_fields = NoFields
    /\ runs = 0
    /\ last = NoExec
    /\ call = NoCall

FnFrame == UNCHANGED <<wf, pc, selected_workflow, current_step,
                       conversation_history, extracted_fields, runs, last>>

CallCombineMatchingResults ==
    /\ pc = "fn"
    /\ call = NoCall
    /\ \E keyword_matches \in KeywordLists, semantic_matches \in SemanticLists,
          min_score \in {0, 30} :
          call' = [op |-> "combine_matching_results",
                   keyword_matches |-> keyword_matches,
                   semantic_matches |-> semantic_matches,
                   min_combined_score |-> min_score,
                   result |-> combine_matching_results(
                                 keyword_matches, semantic_matches, min_score)]
    /\ FnFrame

CallMatchWorkflows ==
    /\ pc = "fn"
    /\ call = NoCall
    /\ \E keyword_matches \in KeywordLists, semantic_matches \in SemanticLists :
       \E res \in {match_workflows(keyword_matches, semantic_matches)} :
          call' = [op |-> "match_workflows",
                   keyword_matches |-> keyword_matches,
                   semantic_matches |-> semantic_matches,
                   filtered_results |-> res.filtered_results,
                   all_combined_results |-> res.all_combined_results]
    /\ FnFrame

CallSemanticMatch ==
    /\ pc = "fn"
    /\ call = NoCall
    /\ \E examples \in ExampleLists, k \in {1, 2, semantic_k} :
       \E order \in ArgsortDescending(examples, DOMAIN examples) :
          call' = [op |-> "match",
                   examples |-> examples, order |-> order, k |-> k,
                   min_score |-> semantic_min_score,
                   result |-> match(examples, order, k, semantic_min_score)]
    /\ FnFrame

CallMeetsSelectionCriteria ==
    /\ pc = "fn"
    /\ call = NoCall
    /\ \E scored_workflows \in ScoredLists, min_confidence_gap \in Gaps :
          call' = [op |-> "meets_selection_criteria",
                   scored_workflows |-> scored_workflows,
                   min_confidence_gap |-> min_confidence_gap,
                   result |-> meets_selection_criteria(scored_workflows,
                                                       min_confidence_gap)]
    /\ FnFrame

CallScoreWorkflowsLLM ==
    /\ pc = "fn"
    /\ call = NoCall
    /\ \E candidates \in CandidateLists, response \in Responses :
       \E raised \in {score_workflows_llm_raises(candidates, response)} :
          call' = [op |-> "score_workflows_llm",
                   candidates |-> candidates,
                   response |-> response,
                   parsed |-> _parse_confidence_scores_yaml(
                                 response,
                                 {candidates[i] : i \in DOMAIN candidates}),
                   raised |-> raised,
                   result |-> IF raised THEN <<>>
                              ELSE score_workflows_llm(candidates, response)]
    /\ FnFrame

CallExecuteFetch ==
    /\ pc = "fn"
    /\ call = NoCall
    /\ \E reply \in LLMReplies, field \in {"f1", "f2"},
          history \in {<<>>, <<Message("user", "input")>>} :
          call' = [op |-> "execute_fetch",
                   reply |-> reply, history |-> history,
                   raised |-> FALSE,
                   result |-> execute_fetch(FetchStep("s1", field),
                                            history, reply)]
    /\ FnFrame

CallEvaluateCondition ==
    /\ pc = "fn"
    /\ call = NoCall
    /\ \E reply \in LLMReplies :
          call' = [op |-> "evaluate_condition",
                   reply |-> reply,
                   raised |-> FALSE,
                   result |-> evaluate_condition(reply)]
    /\ FnFrame

\* one visit of a node whose exec raises or returns as the outcomes say
MaxRetries == 3
ExecOutcomes ==
    {o \in SeqsUpTo({"raise", "v1", "v2"}, MaxRetries) : Len(o) = MaxRetries}

CallNodeRun ==
    /\ pc = "fn"
    /\ call = NoCall
    /\ \E retries \in 0..MaxRetries, outcomes \in ExecOutcomes :
          call' = [op |-> "_run",
                   retries |-> retries, outcomes |-> outcomes,
                   result |-> _run(retries, outcomes)]
    /\ FnFrame

NextFn ==
    \/ CallNodeRun
    \/ CallCombineMatchingResults
    \/ CallMatchWorkflows
    \/ CallSemanticMatch
    \/ CallMeetsSelectionCriteria
    \/ CallScoreWorkflowsLLM
    \/ CallExecuteFetch
    \/ CallEvaluateCondition

SpecFn == InitFn /\ [][NextFn]_vars

----------------------------------------------------------------------------
(* execute_workflow_step on its own: one call on a workflow of the flow    *)
(* family, with any pointer (null, a key of the registry, an id that is    *)
(* not a step), recorded with its arguments and what it returned           *)

StaleId == "gone"

StepHistories ==
    { <<Message("user", "input")>>,
      <<Message("user", "input"), Message("assistant", "question"),
        Message("user", "input")>> }

StepFields == {NoFields, [f \in {"f1"} |-> "v1"]}

InitStep ==
    /\ wf \in FlowFamily
    /\ pc = "fn"
    /\ selected_workflow = None
    /\ current_step = None
    /\ conversation_history = <<>>
    /\ extracted_fields = NoFields
    /\ runs = 0
    /\ last = NoExec
    /\ call = NoCall

CallExecuteWorkflowStep ==
    /\ pc = "fn"
    /\ call = NoCall
    /\ \E selected \in {None, "W1", "W3"},
          pointer \in {None, StaleId} \cup RegistryKeys(wf),
          history \in StepHistories, fields \in StepFields,
          reply \in LLMReplies, constants \in ConstantsDocs :
          call' = [op |-> "execute_workflow_step",
                   selected |-> selected, pointer |-> pointer,
                   history |-> history, fields |-> fields,
                   reply |-> reply, constants |-> constants,
                   dispatch |-> DispatchOf(selected, pointer),
                   result |-> execute_workflow_step(selected, pointer, history,
                                                    fields, reply, constants)]
    /\ FnFrame

NextStep == CallExecuteWorkflowStep

SpecStep == InitStep /\ [][NextStep]_vars

----------------------------------------------------------------------------
(* Positions in a step tree, for stating the properties of the registry and *)
(* of the resolver: every step with the list that contains it, its index    *)
(* there, and the step (with its list and index) that encloses it.          *)

RECURSIVE Occs(_, _, _, _, _, _)
Occs(list, via, shape, pstep, plist, pidx) ==
    UNION {
      {[step |-> list[i], list |-> list, idx |-> i, via |-> via,
        shape |-> shape, pstep |-> pstep, plist |-> plist, pidx |-> pidx]}
        \cup Occs(list[i].then.items, "then", list[i].then.shape, list[i], list, i)
        \cup Occs(list[i].else.items, "else", list[i].else.shape, list[i], list, i)
        \cup Occs(list[i].steps, "steps", "list", list[i], list, i)
      : i \in 1..Len(list) }

AllOccs(t) == Occs(t, "top", "list", NullStep, <<>>, 0)

AllStepIds(t) == {o.step.id : o \in AllOccs(t)} \ {None}

\* the data model: every step has an id, unique in the whole tree
WellFormed(t) ==
    /\ \A o \in AllOccs(t) : o.step.id # None
    /\ \A o1, o2 \in AllOccs(t) : o1.step.id = o2.step.id => o1 = o2

\* a then/else value that is one mapping carrying "steps" is read by the code
\* as the {steps: [...]} wrapper; trees without such a step as a single branch
SingleIsPlain(t) ==
    \A o \in AllOccs(t) : o.shape = "single" => ~o.step.hasSteps

NoContainers(t) == \A o \in AllOccs(t) : ~o.step.hasSteps

ChosenBranch(step, cr) == IF cr = "true" THEN step.then ELSE step.else

\* the id of the entry after index i of list l, None at the end of the list
Following(l, i) == IF i + 1 <= Len(l) THEN l[i + 1].id ELSE None

IdsOf(l) == [i \in 1..Len(l) |-> l[i].id]

----------------------------------------------------------------------------
(* C4 *)

\* the walk that starts at the top-level conditional of occurrence o took a
\* non-empty list branch of steps that do not branch themselves
C4_Case(o) ==
    /\ call.op = "next"
    /\ WellFormed(wf)
    /\ o.via = "top"
    /\ o.step.action = "conditional"
    /\ call.trace[1] = o.step.id
    /\ ChosenBranch(o.step, call.outcomes[1]).shape = "list"
    /\ Len(ChosenBranch(o.step, call.outcomes[1]).items) > 0
    /\ \A i \in 1..Len(ChosenBranch(o.step, call.outcomes[1]).items) :
          ChosenBranch(o.step, call.outcomes[1]).items[i].action # "conditional"

C4_Expected(o) ==
    IdsOf(ChosenBranch(o.step, call.outcomes[1]).items)
        \o <<Following(wf, o.idx)>>

\* C4: repeated get_next_step_id from a top-level conditional whose chosen
\* branch is a step list visits the branch steps in list order and then the
\* top-level step that follows the conditional (then=[A,B], else=[C], next D:
\* A,B,D and C,D); when the conditional is the last top-level step the walk
\* ends with no successor after the last branch step.
C4_BranchWalk ==
    \A o \in AllOccs(wf) :
        C4_Case(o) =>
            \A k \in 1..Len(C4_Expected(o)) :
                k + 1 <= Len(call.trace) => call.trace[k + 1] = C4_Expected(o)[k]

\* a walk P, A, B, D completed: two branch steps, then the following step
C4_Witness ==
    \E o \in AllOccs(wf) :
        /\ C4_Case(o)
        /\ Len(ChosenBranch(o.step, call.outcomes[1]).items) = 2
        /\ Following(wf, o.idx) # None
        /\ Len(call.trace) = 4
        /\ call.trace[4] = Following(wf, o.idx)

----------------------------------------------------------------------------
(* C5 *)

\* the latest call asked for the successor of the step of occurrence o, the
\* last entry of a then/else list of its parent conditional, and the parent
\* is followed by a step in the list that contains the parent
C5_Case(o) ==
    /\ call.op = "next"
    /\ WellFormed(wf)
    /\ call.id = o.step.id
    /\ o.via \in {"then", "else"}
    /\ o.shape \in {"list", "wrapped"}
    /\ o.idx = Len(o.list)
    /\ o.step.action # "conditional"
    /\ Following(o.plist, o.pidx) # None

\* C5: for every conditional P at any depth and every step that is the last
\* entry of one of P's branch lists, get_next_step_id returns the step that
\* follows P in the list that contains P.
C5_BranchExit ==
    \A o \in AllOccs(wf) :
        C5_Case(o) => call.next = Following(o.plist, o.pidx)

----------------------------------------------------------------------------
(* C6 *)

\* the latest call evaluated the conditional of occurrence o with a boolean
\* outcome whose branch holds at least one step
C6_Case(o) ==
    /\ call.op = "next"
    /\ call.cr \in {"true", "false"}
    /\ WellFormed(wf)
    /\ SingleIsPlain(wf)
    /\ call.id = o.step.id
    /\ o.step.action = "conditional"
    /\ Len(ChosenBranch(o.step, call.cr).items) > 0

\* C6: for every conditional step, top-level or nested, evaluated with
\* outcome b, get_next_step_id returns the id of the first step of the chosen
\* branch, for a single step, a list and a {steps: [...]} wrapper alike.
C6_BranchEntry ==
    \A o \in AllOccs(wf) :
        C6_Case(o) => call.next = ChosenBranch(o.step, call.cr).items[1].id

----------------------------------------------------------------------------
(* C7 *)

\* the latest call evaluated the conditional of occurrence o with an outcome
\* whose branch is absent or empty
C7_Case(o) ==
    /\ call.op = "next"
    /\ call.cr \in {"true", "false"}
    /\ WellFormed(wf)
    /\ call.id = o.step.id
    /\ o.step.action = "conditional"
    /\ Len(ChosenBranch(o.step, call.cr).items) = 0

\* the top-level occurrence that is o itself or encloses o (trees here nest
\* two levels deep)
TopIndex(o) ==
    IF o.via = "top" THEN o.idx
    ELSE IF \E i \in 1..Len(wf) : wf[i] = o.pstep
         THEN o.pidx
         ELSE CHOOSE i \in 1..Len(wf) :
                 \E q \in AllOccs(wf) : q.step = o.pstep /\ q.pstep = wf[i]

----------------------------------------------------------------------------
(* C8 *)

\* C8: the key set of the registry is exactly the set of step ids that occur
\* anywhere in the tree.
C8_RegistryComplete ==
    call.op = "registry" => call.keys = AllStepIds(wf)

----------------------------------------------------------------------------
(* The step interpreter and the flow *)

NotFoundReplies == {"question", "no_question", "true", "text", "unparseable"}
FoundReplies == {"found_v1", "found_v2"}

FetchNotFound ==
    last.node = "execute" /\ last.action = "fetch" /\ last.llm \in NotFoundReplies
FetchFound ==
    last.node = "execute" /\ last.action = "fetch" /\ last.llm \in FoundReplies

\* C1: a fetch step whose field is not found (whatever the reply that says so,
\* the parse-failure fallback included) returns waiting_for_input with
\* next_step_id its own id and the extracted fields unchanged; post keeps the
\* pointer at that step, the run ends, and the next invocation resolves the
\* pointer to the same step.
C1_FetchNotFoundHolds ==
    FetchNotFound =>
        /\ ~last.raised
        /\ last.status = "waiting_for_input"
        /\ last.next_step_id = last.step_id
        /\ last.has_fields
        /\ extracted_fields = last.fields_before
        /\ current_step = last.step_id
        /\ pc = "done"
        /\ ResolveStep(StepsOf(selected_workflow), current_step).kind = "dispatch"
        /\ ResolveStep(StepsOf(selected_workflow), current_step).id = last.step_id

C1_Witness ==
    /\ FetchNotFound
    /\ last.llm = "unparseable"
    /\ last.fields_before # NoFields
    /\ current_step = last.step_id

\* C2: whenever a fetch step ends with the field not found, exactly one
\* assistant message has been appended to the conversation history, for every
\* reply that leads to that outcome.
C2_ExactlyOneQuestion ==
    FetchNotFound =>
        /\ Len(conversation_history) = Len(last.history_before) + 1
        /\ SubSeq(conversation_history, 1, Len(last.history_before))
              = last.history_before
        /\ conversation_history[Len(conversation_history)].role = "assistant"

\* C3: a fetch step whose field is found with value v records v under the
\* step's field name, appends nothing to the history, and returns the
\* resolver's successor with status continue when there is one and complete
\* with no next step otherwise; it never returns waiting_for_input.
C3_FetchFoundAdvances ==
    FetchFound =>
        LET successor == get_next_step_id(last.step_id,
                                          StepsOf(selected_workflow), "none")
            v == IF last.llm = "found_v1" THEN "v1" ELSE "v2"
        IN /\ ~last.raised
           /\ last.status # "waiting_for_input"
           /\ last.next_step_id = successor
           /\ last.status = IF successor # None THEN "continue" ELSE "complete"
           /\ conversation_history = last.history_before
           /\ DOMAIN extracted_fields = DOMAIN last.fields_before \cup {last.field}
           /\ extracted_fields[last.field] = v
           /\ \A f \in DOMAIN last.fields_before \ {last.field} :
                 extracted_fields[f] = last.fields_before[f]

C3_Witness ==
    /\ FetchFound
    /\ last.status = "continue"
    /\ last.field \in DOMAIN last.fields_before
    /\ extracted_fields[last.field] # last.fields_before[last.field]

\* C9: a reply step and an include step append exactly one assistant message,
\* then return waiting_for_input with the resolver's successor when there is
\* one and complete with no next step otherwise; they never return continue
\* and never change the extracted fields.
C9_ReplyIncludePause ==
    (last.node = "execute" /\ last.action \in {"reply", "include"}) =>
        LET successor == get_next_step_id(last.step_id,
                                          StepsOf(selected_workflow), "none")
        IN /\ ~last.raised
           /\ conversation_history =
                 Append(last.history_before, Message("assistant", last.action))
           /\ last.next_step_id = successor
           /\ last.status = IF successor # None THEN "waiting_for_input"
                            ELSE "complete"
           /\ last.status # "continue"
           /\ extracted_fields = last.fields_before

C9_Witness ==
    /\ last.node = "execute"
    /\ last.action = "include"
    /\ last.status = "waiting_for_input"
    /\ current_step = last.next_step_id
    /\ Len(conversation_history) = Len(last.history_before) + 1

\* C10: within a run ExecuteWorkflowNode is entered again exactly when its
\* previous invocation returned status continue; after complete, no_workflow
\* or waiting_for_input the run has ended; and an invocation that follows one
\* in the same run starts from the pointer and the extracted fields the
\* previous one produced.
C10_AfterInvocation ==
    (last.node = "execute" /\ ~last.raised) =>
        /\ (pc = "execute") <=> (last.status = "continue")
        /\ last.status \in {"complete", "no_workflow", "waiting_for_input"}
              => pc = "done"
        /\ last.status = "continue" => current_step = last.next_step_id

C10_ReEntry ==
    (last.node = "execute" /\ last'.node = "execute") =>
        /\ last.status = "continue"
        /\ runs' = runs
        /\ last'.pointer_before = last.next_step_id
        /\ last'.fields_before = extracted_fields
        /\ last'.selected_before = last.selected_before

C10_LoopWhileContinue == [](C10_AfterInvocation) /\ [][C10_ReEntry]_vars

C10_Witness ==
    /\ last.node = "execute"
    /\ last.status = "continue"
    /\ pc = "execute"
    /\ last.pointer_before # None
    /\ extracted_fields # NoFields

----------------------------------------------------------------------------
(* The execution pointer across invocations and runs *)

\* the first ExecuteWorkflowNode invocation of a run has just happened
FirstInvocation == last.node = "execute" /\ last.first_in_run

\* the condition outcome the conditional handler passes to the resolver
OutcomeOf(rec) == IF rec.action = "conditional" THEN rec.llm ELSE "none"

\* C11: when a run ended with waiting_for_input, the next run on the same
\* session state resumes exactly there: its first invocation has the same
\* selected workflow, executes the step the pointer was left at, and is given
\* the history accumulated so far (with the new user message) and the
\* extracted fields accumulated so far.
C11_ResumeAfterWaiting ==
    (FirstInvocation /\ last.prior.status = "waiting_for_input") =>
        /\ last.selected_before = last.prior.workflow
        /\ last.pointer_before = last.prior.step_id
        /\ last.step_id = last.prior.step_id
        /\ last.fields_before = last.prior.fields
        /\ last.history_before =
              Append(last.prior.history, Message("user", "input"))

\* C12: after an invocation that returns complete or no_workflow the persisted
\* pointer is null; after one that returns continue it is the returned
\* next_step_id, which is the successor the resolver computes for the
\* executed step.
C12_PointerAfterInvocation ==
    (last.node = "execute" /\ ~last.raised) =>
        /\ last.status \in {"complete", "no_workflow"} => current_step = None
        /\ last.status = "continue" =>
              /\ current_step = last.next_step_id
              /\ current_step # None
              /\ last.next_step_id =
                    get_next_step_id(last.step_id,
                                     StepsOf(selected_workflow), OutcomeOf(last))

C12_Witness ==
    /\ last.node = "execute"
    /\ last.action = "use_tool"
    /\ last.status = "continue"
    /\ current_step = last.next_step_id
    /\ last.pointer_before # None

\* C13: when the matching stage has selected a workflow and the session is not
\* resuming a suspended execution of that same workflow, the first step
\* executed is the workflow's first top-level step, whatever pointer the
\* earlier run left behind.
C13_SelectionStartsAtFirstStep ==
    (/\ FirstInvocation
     /\ last.selected_before # None
     /\ Len(StepsOf(last.selected_before)) > 0
     /\ ~(/\ last.prior.status = "waiting_for_input"
          /\ last.prior.workflow = last.selected_before)) =>
        ResolveStep(StepsOf(last.selected_before), last.pointer_before)
            = ResolveStep(StepsOf(last.selected_before), None)

----------------------------------------------------------------------------
(* One invocation of the step interpreter *)

KnownActions == {"fetch", "conditional", "reply", "use_tool", "include"}

Invoked == last.node = "execute"

\* the step list of the workflow the latest invocation was given
StepsBefore == StepsOf(last.selected_before)

\* the step the latest invocation's pointer resolved to in the registry
PointedId ==
    IF last.pointer_before = None THEN get_first_step_id(StepsBefore)
    ELSE last.pointer_before

\* C14: an invocation of execute_workflow_step enters at most one action
\* handler, appends at most one message, changes at most the executed step's
\* field, and moves the pointer by at most one resolver step: no second step
\* of the workflow is executed, whatever the status.
C14_OneStepPerInvocation ==
    Invoked =>
        /\ last.handlers <= 1
        /\ Len(conversation_history) <= Len(last.history_before) + 1
        /\ SubSeq(conversation_history, 1, Len(last.history_before))
              = last.history_before
        /\ DOMAIN last.fields_before \subseteq DOMAIN extracted_fields
        /\ \A f \in DOMAIN extracted_fields :
              f # last.field =>
                 /\ f \in DOMAIN last.fields_before
                 /\ extracted_fields[f] = last.fields_before[f]
        /\ last.handlers = 0 =>
              /\ conversation_history = last.history_before
              /\ extracted_fields = last.fields_before
              /\ last.next_step_id = None
        /\ last.handlers = 1 =>
              last.next_step_id \in
                 {last.step_id,
                  get_next_step_id(last.step_id, StepsBefore, OutcomeOf(last))}

C14_Witness ==
    /\ Invoked
    /\ last.action = "use_tool"
    /\ last.tool_name = "escalation"
    /\ last.status = "continue"
    /\ last.handlers = 1
    /\ Len(conversation_history) = Len(last.history_before) + 1
    /\ RegistryGet(StepsBefore, last.next_step_id).action \in KnownActions

\* C15: whenever the pointer resolves to a container step (nested steps, no
\* action), the invocation does not reach action dispatch with the container
\* itself: it does not raise, and a step it dispatches is the container's
\* first nested step and not a container.
C15_ContainerNeverDispatched ==
    (/\ Invoked
     /\ last.selected_before # None
     /\ PointedId \in RegistryKeys(StepsBefore)
     /\ RegistryGet(StepsBefore, PointedId).hasSteps
     /\ RegistryGet(StepsBefore, PointedId).action = "") =>
        /\ ~last.raised
        /\ last.step_id # PointedId
        /\ last.step_id # None =>
              /\ Len(RegistryGet(StepsBefore, PointedId).steps) > 0
              /\ last.step_id = RegistryGet(StepsBefore, PointedId).steps[1].id
              /\ last.action # ""

\* C16: an invocation raises exactly when the step to execute has an action
\* (as the routing reads it, "" when the key is missing) outside the five
\* recognised ones; then there is no result, exec was attempted once, the run
\* is over, and history, extracted fields, selected workflow and pointer are
\* as they were.
C16_FatalOnUnknownAction ==
    Invoked =>
        /\ last.raised <=> (last.step_id # None /\ last.action \notin KnownActions)
        /\ last.raised =>
              /\ last.status = "none"
              /\ last.flow_action = None
              /\ last.attempts = 1
              /\ pc = "error"
              /\ conversation_history = last.history_before
              /\ extracted_fields = last.fields_before
              /\ selected_workflow = last.selected_before
              /\ current_step = last.pointer_before

C16_Witness ==
    /\ Invoked
    /\ last.raised
    /\ last.action = "send_email"
    /\ last.pointer_before # None
    /\ last.fields_before # NoFields
    /\ Len(last.history_before) > 1

\* C17: a conditional step evaluated to b returns the resolver's successor for
\* (step, b), with status continue when there is one and complete otherwise,
\* never waiting_for_input, and leaves history and extracted fields unchanged.
C17_ConditionalAdvances ==
    (Invoked /\ last.action = "conditional") =>
        LET successor == get_next_step_id(last.step_id, StepsBefore, last.llm)
        IN /\ ~last.raised
           /\ last.llm \in {"true", "false"}
           /\ last.next_step_id = successor
           /\ last.status = IF successor # None THEN "continue" ELSE "complete"
           /\ last.status # "waiting_for_input"
           /\ conversation_history = last.history_before
           /\ extracted_fields = last.fields_before

C17_Witness ==
    /\ Invoked
    /\ last.action = "conditional"
    /\ last.llm = "true"
    /\ last.status = "continue"
    /\ last.next_step_id
          # get_next_step_id(last.step_id, StepsBefore, "false")
    /\ last.fields_before # NoFields

\* C18: a use_tool step always advances: continue with the resolver's
\* successor when there is one, complete otherwise, never waiting_for_input
\* and never its own id; it appends one assistant message when the tool is
\* escalation and nothing for any other tool; extracted fields are unchanged.
C18_ToolAlwaysAdvances ==
    (Invoked /\ last.action = "use_tool") =>
        LET successor == get_next_step_id(last.step_id, StepsBefore, "none")
        IN /\ ~last.raised
           /\ last.next_step_id = successor
           /\ last.status = IF successor # None THEN "continue" ELSE "complete"
           /\ last.status # "waiting_for_input"
           /\ last.next_step_id # last.step_id
           /\ conversation_history =
                 IF last.tool_name = "escalation"
                 THEN Append(last.history_before,
                             Message("assistant", "escalation"))
                 ELSE last.history_before
           /\ extracted_fields = last.fields_before

C18_Witness ==
    /\ Invoked
    /\ last.action = "use_tool"
    /\ last.tool_name = "lookup"
    /\ last.status = "continue"
    /\ conversation_history = last.history_before
    /\ last.fields_before # NoFields

\* C19: without a selected workflow the invocation returns no_workflow, with
\* a selected workflow whose step list is empty it returns complete; in both
\* cases next_step_id is null, nothing is raised, the external model is not
\* called, and history and extracted fields are unchanged.
C19_NothingToExecute ==
    (Invoked /\ (last.selected_before = None \/ Len(StepsBefore) = 0)) =>
        /\ last.status = IF last.selected_before = None THEN "no_workflow"
                         ELSE "complete"
        /\ last.next_step_id = None
        /\ ~last.raised
        /\ last.model_calls = 0
        /\ last.handlers = 0
        /\ conversation_history = last.history_before
        /\ extracted_fields = last.fields_before

C19_Witness ==
    /\ Invoked
    /\ last.selected_before = "W3"
    /\ last.status = "complete"
    /\ last.pointer_before # None
    /\ last.fields_before # NoFields

----------------------------------------------------------------------------
(* The matching stage *)

Matched == last.node = "match"

\* C20: the confidence scorer is called exactly when the filtered list has at
\* least two entries, or is empty while the unfiltered list is not; in the
\* latter case its candidates are the first five of the unfiltered list (the
\* filtered matches in the former); a single filtered match is selected
\* without a scorer call and without the selection gate.
C20_ScorerInvocation ==
    Matched =>
        /\ last.match.scorer_calls \in {0, 1}
        /\ last.match.scorer_calls = 1 <=>
              \/ last.match.matches >= 2
              \/ (last.match.matches = 0 /\ Len(last.match.ranked) > 0)
        /\ (last.match.matches = 0 /\ Len(last.match.ranked) > 0) =>
              last.match.candidates = Prefix(last.match.ranked, 5)
        /\ last.match.matches >= 2 =>
              last.match.candidates
                 = Prefix(last.match.ranked, last.match.matches)
        /\ last.match.matches = 1 =>
              /\ last.match.scorer_calls = 0
              /\ ~last.match.gate
              /\ selected_workflow = last.match.ranked[1]
              /\ last.flow_action = "default"
              /\ pc = "execute"

C20_Witness ==
    /\ Matched
    /\ last.match.matches = 0
    /\ Len(last.match.ranked) = 5
    /\ last.match.scorer_calls = 1
    /\ Len(last.match.candidates) = 5
    /\ selected_workflow = last.match.candidates[2]
    /\ last.prior.status = "waiting_for_input"

\* C21: when the keyword filter returns nothing and the semantic filter
\* returns exactly one workflow (its similarity is at least 0.35), the stage
\* takes it as a single match: the scorer is not called and the workflow is
\* selected.
C21_SemanticOnlySingleMatch ==
    (/\ Matched
     /\ last.match.workflows
     /\ last.match.keyword_matches = <<>>
     /\ Len(last.match.semantic_matches) = 1
     /\ last.match.semantic_matches[1][2] >= semantic_min_score)
    => /\ last.match.matches = 1
       /\ last.match.scorer_calls = 0
       /\ ~last.raised
       /\ selected_workflow = last.match.semantic_matches[1][1]

GateCalled == call.op = "meets_selection_criteria"

\* C22: called with a minimum gap of 0.0 on two or more scored workflows,
\* meets_selection_criteria returns false exactly when the first confidence
\* equals the second or is lower than it, and true otherwise.
C22_AmbiguousOnTieOrInversion ==
    (/\ GateCalled
     /\ call.min_confidence_gap = 0
     /\ Len(call.scored_workflows) >= 2)
    => (call.result = FALSE
           <=> call.scored_workflows[1][2] <= call.scored_workflows[2][2])

\* the selection gate was consulted by post and returned false
GateAmbiguous(min_confidence_gap) ==
    /\ Matched
    /\ last.match.gate
    /\ ~last.raised
    /\ ~meets_selection_criteria(last.match.scored, min_confidence_gap)

\* C23: whenever the selection gate reports ambiguity (here with the gap
\* 0.05), the conversation history is the run's user message followed by
\* exactly one assistant message, the clarification question; no workflow is
\* selected; the run has ended without the interpreter node; and the
\* execution pointer is the one the run started with.
C23_ClarifyOnAmbiguity ==
    GateAmbiguous(default_min_confidence_gap)
    => /\ conversation_history
             = <<Message("user", "input"),
                 Message("assistant", "clarification")>>
       /\ selected_workflow = None
       /\ last.flow_action = "clarify"
       /\ pc = "done"
       /\ current_step = last.prior.step_id

C23_Witness ==
    /\ GateAmbiguous(default_min_confidence_gap)
    /\ Len(last.match.scored) = 2
    /\ last.match.scored[1][2] = 52
    /\ last.match.scored[2][2] = 50
    /\ last.prior.workflow # None
    /\ current_step # None
    /\ selected_workflow = None
    /\ pc = "done"

\* C24: meets_selection_criteria returns true for a list of exactly one
\* scored workflow, for every confidence and every minimum gap, and false
\* for the empty list.
C24_LoneSelectedEmptyRejected ==
    GateCalled
    => /\ Len(call.scored_workflows) = 1 => call.result = TRUE
       /\ Len(call.scored_workflows) = 0 => call.result = FALSE

C24_Witness ==
    /\ GateCalled
    /\ Len(call.scored_workflows) = 1
    /\ call.scored_workflows[1][2] = 0
    /\ call.min_confidence_gap = 100
    /\ call.result = TRUE

NameSet(pairs) == {pairs[i][1] : i \in DOMAIN pairs}

ElemSet(seq) == {seq[i] : i \in DOMAIN seq}

ScoreOf(pairs, name) == pairs[CHOOSE i \in DOMAIN pairs : pairs[i][1] = name][2]

NonIncreasing(pairs) ==
    \A i \in DOMAIN pairs, j \in DOMAIN pairs :
        i < j => pairs[i][2] >= pairs[j][2]

OncePerWorkflow(pairs) ==
    \A i \in DOMAIN pairs, j \in DOMAIN pairs :
        i # j => pairs[i][1] # pairs[j][1]

\* C25: combine_matching_results gives a workflow that is in the keyword
\* matches and in the semantic list 1.2 times its semantic score, capped at
\* 1.0; a workflow only in the semantic list its semantic score; a workflow
\* only in the keyword matches exactly 0.5.
C25_CombinedScores ==
    call.op = "combine_matching_results"
    => \A name \in ElemSet(call.keyword_matches)
                      \cup NameSet(call.semantic_matches) :
          /\ name \in NameSet(call.result)
          /\ LET both == /\ name \in ElemSet(call.keyword_matches)
                         /\ name \in NameSet(call.semantic_matches)
                 semantic_score == ScoreOf(call.semantic_matches, name)
             IN ScoreOf(call.result, name) * 10 =
                   IF both
                   THEN IF semantic_score * 12 > 1000 THEN 1000
                        ELSE semantic_score * 12
                   ELSE IF name \in NameSet(call.semantic_matches)
                   THEN semantic_score * 10
                   ELSE 500

C25_Witness ==
    /\ call.op = "combine_matching_results"
    /\ call.keyword_matches = <<"W1", "W3">>
    /\ call.semantic_matches = <<<<"W1", 85>>, <<"W2", 45>>>>
    /\ call.result = <<<<"W1", 100>>, <<"W3", 50>>, <<"W2", 45>>>>

\* C26: the unfiltered list of match_workflows holds every workflow of the
\* keyword matches and of the semantic list exactly once and no other,
\* highest combined score first; the filtered list is the entries of the
\* unfiltered list whose score is at least 0.5, in the same order.
C26_RankedLists ==
    call.op = "match_workflows"
    => /\ NameSet(call.all_combined_results)
             = ElemSet(call.keyword_matches)
                  \cup NameSet(call.semantic_matches)
       /\ OncePerWorkflow(call.all_combined_results)
       /\ NonIncreasing(call.all_combined_results)
       /\ call.filtered_results
             = SelectSeq(call.all_combined_results,
                         LAMBDA e : ~(e[2] < min_combined_score))

C26_Witness ==
    /\ call.op = "match_workflows"
    /\ Len(call.all_combined_results) = 3
    /\ Len(call.filtered_results) = 2
    /\ call.filtered_results[2][2] = min_combined_score
    /\ call.all_combined_results[3][2] < min_combined_score

\* the examples argsort put in the top k
TopExamples == ElemSet([i \in DOMAIN Prefix(call.order, call.k) |->
                           call.examples[call.order[i]]])

\* C27: SemanticMatcher.match returns the empty list when the best example
\* similarity is below min_score; otherwise every returned score is at least
\* min_score, every workflow is returned at most once, with the highest
\* similarity among its examples in the top k, and the list is sorted by
\* score, highest first.
C27_SemanticMatch ==
    call.op = "match"
    => /\ (\A i \in DOMAIN call.examples :
              call.examples[i][2] < call.min_score)
          => call.result = <<>>
       /\ \A i \in DOMAIN call.result :
             /\ call.result[i][2] >= call.min_score
             /\ \E e \in TopExamples : e = call.result[i]
             /\ \A e \in TopExamples :
                   e[1] = call.result[i][1] => e[2] <= call.result[i][2]
       /\ OncePerWorkflow(call.result)
       /\ NonIncreasing(call.result)

C27_Witness ==
    /\ call.op = "match"
    /\ call.examples = <<<<"W1", 35>>, <<"W1", 60>>, <<"W2", 30>>>>
    /\ call.k = semantic_k
    /\ call.result = <<<<"W1", 60>>>>

\* the stage in which both filters returned nothing
NothingMatched ==
    /\ Matched
    /\ last.match.keyword_matches = <<>>
    /\ last.match.semantic_matches = <<>>

\* C28: when the keyword filter and the semantic filter both return nothing
\* (also on an empty catalog), the unfiltered and the filtered list are empty,
\* the scorer is not called, no workflow is selected, the history is still
\* the run's user message alone, and the interpreter invocation that follows
\* returns no_workflow.
C28_NothingMatched ==
    /\ NothingMatched
       => /\ last.match.all_combined_results = <<>>
          /\ last.match.matches = 0
          /\ last.match.scorer_calls = 0
          /\ ~last.raised
          /\ selected_workflow = None
          /\ conversation_history = <<Message("user", "input")>>
          /\ pc = "execute"
    /\ (Invoked /\ last.no_hits)
       => /\ last.status = "no_workflow"
          /\ ~last.raised
          /\ selected_workflow = None
          /\ conversation_history = <<Message("user", "input")>>

C28_Witness ==
    /\ Invoked
    /\ last.no_hits
    /\ last.status = "no_workflow"
    /\ last.prior.status = "waiting_for_input"
    /\ last.prior.workflow # None

ScorerCalled == call.op = "score_workflows_llm"

\* 0.5 for every candidate, in the candidates' order
DefaultScores ==
    [i \in DOMAIN call.candidates |-> <<call.candidates[i], default_score>>]

\* the response gave no candidate a number as its confidence
NoScoreParsed == \A i \in DOMAIN call.parsed : IsText(call.parsed[i][2])

\* C29: when the scorer's response is not parsed into a score for any
\* candidate, score_workflows_llm does not raise and returns every candidate
\* with confidence 0.5; whatever the response, a list it returns is sorted by
\* confidence, highest first.
C29_DefaultOnUnparsed ==
    ScorerCalled
    => /\ NoScoreParsed => (~call.raised /\ call.result = DefaultScores)
       /\ ~call.raised => NonIncreasing(call.result)

\* C30: whatever the external model responds, execute_fetch,
\* evaluate_condition and score_workflows_llm do not raise, and a response
\* that cannot be interpreted gives the default: field not found, condition
\* false, confidence 0.5 for every candidate.
C30_ParsersNeverRaise ==
    /\ ScorerCalled
       => /\ ~call.raised
          /\ call.response.shape \in {"scalar", "invalid"}
                => call.result = DefaultScores
    /\ call.op = "execute_fetch"
       => /\ ~call.raised
          /\ call.reply \in {"text", "unparseable"} => ~call.result.found
    /\ call.op = "evaluate_condition"
       => /\ ~call.raised
          /\ call.reply \in {"text", "unparseable"} => call.result = "false"

\* C31: the extracted fields are changed by nothing but a fetch step whose
\* field is found: after any other invocation, and after the load and the
\* matching stage, they are what they were; after such a fetch every earlier
\* key is still there, every other entry is unchanged, and the step's field
\* holds the value found.
C31_FieldsOnlyGrow ==
    /\ last.node \in {"load", "match"} => extracted_fields = last.prior.fields
    /\ Invoked =>
          /\ DOMAIN last.fields_before \subseteq DOMAIN extracted_fields
          /\ IF FetchFound /\ ~last.raised
             THEN /\ DOMAIN extracted_fields
                        = DOMAIN last.fields_before \cup {last.field}
                  /\ \A f \in DOMAIN last.fields_before \ {last.field} :
                        extracted_fields[f] = last.fields_before[f]
                  /\ extracted_fields[last.field]
                        = IF last.llm = "found_v1" THEN "v1" ELSE "v2"
             ELSE extracted_fields = last.fields_before

C31_Witness ==
    /\ FetchFound
    /\ last.field = "f2"
    /\ DOMAIN last.fields_before = {"f1"}
    /\ DOMAIN extracted_fields = {"f1", "f2"}
    /\ extracted_fields["f1"] = last.fields_before["f1"]
    /\ ~last.first_in_run

\* C32: the matching stage and every interpreter invocation only append to
\* the conversation history: the history before the step is an unchanged
\* prefix of the history after it, and every message added has the role
\* assistant.
AppendedAssistant(before, after) ==
    /\ Len(before) <= Len(after)
    /\ SubSeq(after, 1, Len(before)) = before
    /\ \A i \in (Len(before) + 1)..Len(after) : after[i].role = "assistant"

C32_HistoryAppendOnly ==
    [][(pc \in {"match", "execute"}) =>
          (\E after \in {conversation_history'} :
              AppendedAssistant(conversation_history, after))]_vars

C32_Witness ==
    /\ last.node = "match"
    /\ last.flow_action = "clarify"
    /\ conversation_history =
          <<Message("user", "input"), Message("assistant", "clarification")>>

\* the definitions build_step_registry stores under an id, in the order of
\* its traversal, and the one of them it visits last
VisitsOf(steps, id) ==
    SelectSeq(RegistryWrites(steps), LAMBDA s : s.id = id)
VisitedLast(steps, id) == VisitsOf(steps, id)[Len(VisitsOf(steps, id))]

\* C33: when several steps carry the same id, the registry maps the id to
\* the definition its traversal visits last, and an invocation whose pointer
\* resolves to that id dispatches this definition.
C33_LastDefinitionWins ==
    /\ \A id \in RegistryKeys(wf) :
          build_step_registry(wf)[id] = VisitedLast(wf, id)
    /\ (/\ Invoked
        /\ last.selected_before = "W1"
        /\ PointedId # None
        /\ PointedId \in RegistryKeys(wf)
        /\ last.step_id = PointedId) =>
          /\ last.action = VisitedLast(wf, PointedId).action
          /\ last.field = VisitedLast(wf, PointedId).field
          /\ last.tool_name = VisitedLast(wf, PointedId).tool_name

C33_Witness ==
    /\ Invoked
    /\ last.selected_before = "W1"
    /\ PointedId = "d"
    /\ last.step_id = "d"
    /\ Len(VisitsOf(wf, "d")) = 3
    /\ VisitsOf(wf, "d")[1].action = "reply"
    /\ VisitsOf(wf, "d")[2].action = "fetch"
    /\ VisitsOf(wf, "d")[3].action = "include"
    /\ last.action = "include"
    /\ ~last.raised

\* C34: the default_prerequisites check is inert: a call of
\* execute_workflow_step returns the same result, history and fields as the
\* same call with any other constants document, and what it returns is what
\* the handler of the dispatched step returns on the history the call was
\* given, so the first step is neither blocked nor delayed.
C34_PrerequisitesInert ==
    call.op = "execute_workflow_step" =>
       /\ \A constants \in ConstantsDocs :
             execute_workflow_step(call.selected, call.pointer, call.history,
                                   call.fields, call.reply, constants)
                = call.result
       /\ call.dispatch.kind = "dispatch" =>
             call.result = Route(call.dispatch.step, call.dispatch.id,
                                 StepsOf(call.selected), call.history,
                                 call.fields, call.reply)

C34_Witness ==
    /\ call.op = "execute_workflow_step"
    /\ call.constants = Prerequisites(<<"account", "state">>)
    /\ call.selected = "W1"
    /\ call.pointer = None
    /\ call.dispatch.kind = "dispatch"
    /\ call.dispatch.id = get_first_step_id(wf)
    /\ call.dispatch.step.action = "fetch"
    /\ call.reply = "found_v1"
    /\ call.result.status = "continue"
    /\ call.result.history = call.history

\* C35: one visit of a node calls exec at most max_retries times, stops at
\* the first call that does not raise and returns its value, and calls
\* exec_fallback once, after the max_retries-th failure in a row and not
\* before; the fallback raises, so post is not run. With the agent's
\* max_retries = 1 exec is called exactly once per visit.
RaisesBefore(outcomes, n) == \A i \in 1..n : outcomes[i] = "raise"

C35_RetryThenFallback ==
    call.op = "_run" =>
       LET e == call.result.exec
           o == call.outcomes
       IN /\ e.calls <= call.retries
          /\ RaisesBefore(o, e.calls - 1)
          /\ (e.calls > 0 /\ o[e.calls] # "raise") =>
                /\ ~e.raised
                /\ e.value = o[e.calls]
                /\ e.fallbacks = 0
                /\ call.result.post_calls = 1
          /\ e.fallbacks = 1 <=>
                (call.retries > 0 /\ RaisesBefore(o, call.retries))
          /\ e.fallbacks = 1 =>
                /\ e.calls = call.retries
                /\ e.raised
                /\ call.result.post_calls = 0
          /\ e.fallbacks \in {0, 1}
          /\ (call.retries > 0 /\ ~RaisesBefore(o, call.retries)) =>
                (~e.raised /\ o[e.calls] # "raise")
          /\ call.retries = max_retries => e.calls = 1
          /\ max_retries = 1

C35_Witness ==
    /\ call.op = "_run"
    /\ call.retries = 3
    /\ call.outcomes = <<"raise", "raise", "raise">>
    /\ call.result.exec.calls = 3
    /\ call.result.exec.fallbacks = 1
    /\ call.result.post_calls = 0

\* the place of an id in the traversal order of the workflow under test
\* (ids are given in that order)
PlaceOf(id) == CHOOSE i \in DOMAIN Ids : Ids[i] = id

\* C36: the continue-loop of one flow run ends: it reaches a state in which
\* no visit of ExecuteWorkflowNode is due; within one loop every step dispatched lies strictly later in the
\* traversal order than the one dispatched before it, so no step id is
\* executed twice.
C36_LoopTerminates ==
    /\ [](Invoked =>
            \A i, j \in DOMAIN last.visited :
               (i < j /\ last.visited[i] # None /\ last.visited[j] # None
                 /\ last.selected_before = "W1") =>
                  PlaceOf(last.visited[i]) < PlaceOf(last.visited[j]))
    /\ <>(pc # "execute")

C36_Witness ==
    /\ Invoked
    /\ last.selected_before = "W1"
    /\ Len(last.visited) = 4
    /\ \A i \in DOMAIN last.visited : last.visited[i] # None
    /\ last.status = "complete"

\* the latest invocation ran the last nested step of a top-level container
\* that has a top-level step after it, and the step's handler advanced
ContainerExit(o) ==
    /\ Invoked
    /\ ~last.raised
    /\ last.selected_before = "W1"
    /\ o \in AllOccs(wf)
    /\ o.via = "steps"
    /\ o.plist = wf
    /\ o.pstep.action = ""
    /\ o.idx = Len(o.list)
    /\ o.pidx < Len(wf)
    /\ wf[o.pidx + 1].id # None
    /\ o.step.id = last.step_id
    /\ \/ last.action \in {"reply", "include", "use_tool"}
       \/ FetchFound

\* C37: when the last nested step of a top-level container completes, the
\* resolver returns the top-level step that follows the container, and the
\* workflow is not reported complete before that step has run.
C37_ContainerExit ==
    \A o \in AllOccs(wf) :
       ContainerExit(o) =>
          /\ last.next_step_id = wf[o.pidx + 1].id
          /\ last.status # "complete"

\* C38: in match_workflows a workflow of the keyword matches that is also in
\* the semantic list has a combined score of at least 0.5, so that every
\* workflow of the keyword matches is in the filtered list.
C38_KeywordMatchKept ==
    call.op = "match_workflows" =>
       \A name \in ElemSet(call.keyword_matches) :
          /\ name \in NameSet(call.semantic_matches) =>
                ScoreOf(call.all_combined_results, name) >= min_combined_score
          /\ name \in NameSet(call.filtered_results)

\* C39: the list score_workflows_llm returns holds every candidate exactly
\* once and no other name, so that it has a single entry only when there is
\* a single candidate.
C39_EveryCandidateOnce ==
    (call.op = "score_workflows_llm" /\ ~call.raised) =>
       /\ NameSet(call.result) = ElemSet(call.candidates)
       /\ OncePerWorkflow(call.result)
       /\ Len(call.result) = 1 => Len(call.candidates) = 1

\* C40: every result of execute_workflow_step pairs its status with its
\* next_step_id: continue and waiting_for_input come with a next_step_id
\* that is not null and is a key of the step registry, complete and
\* no_workflow with a null next_step_id.
C40_StatusAndPointer ==
    (call.op = "execute_workflow_step" /\ ~call.result.raised) =>
       /\ call.result.status \in {"continue", "waiting_for_input"} =>
             /\ call.result.next_step_id # None
             /\ call.result.next_step_id
                   \in RegistryKeys(StepsOf(call.selected))
       /\ call.result.status \in {"complete", "no_workflow"} =>
             call.result.next_step_id = None
       /\ call.result.status
             \in {"continue", "waiting_for_input", "complete", "no_workflow"}

C40_Witness ==
    /\ call.op = "execute_workflow_step"
    /\ call.selected = "W1"
    /\ call.dispatch.kind = "dispatch"
    /\ call.dispatch.step.action = "fetch"
    /\ call.reply = "question"
    /\ call.result.status = "waiting_for_input"
    /\ call.result.next_step_id = call.dispatch.id
    /\ call.pointer = None

====
